---- MODULE Spec2Model ----
(***************************************************************************)
(* A model of the core of cli-builder-core:                                *)
(*   - PluginManager.executeHook      (plugins/plugin-manager.ts)          *)
(*   - ProjectGenerator.generate      (core/project-generator.ts)          *)
(*   - CLIBuilder.collectAnswers      (core/cli-builder.ts)                *)
(*   - PluginManager.install, uninstall, getPlugin, listPlugins            *)
(*   - createCLI and CLIBuilder.run   (helpers, core/cli-builder.ts)       *)
(*   - UIManager.show* and hex        (core/ui-manager.ts, utils/themes.ts)*)
(*   - ReadlineManager                (core/readline-manager.ts)           *)
(* Each component has its own specification (SpecHook, SpecGen,            *)
(* SpecPrompt, SpecRegistry, SpecRun, SpecRunEntry, SpecUI, SpecReadline); *)
(* the variables of the components it does not call stay at their initial  *)
(* values.  run is modelled in three stages, each from the state the stage *)
(* before hands over: its entry (SpecRunEntry), collectAnswers             *)
(* (SpecPrompt), and the rest from the settling of collectAnswers          *)
(* (SpecRun), which runs generate as the step of run that calls it.  The   *)
(* display calls of run and collectAnswers are the calls of the UIManager, *)
(* the questions of collectAnswers are questions of the ReadlineManager.   *)
(***************************************************************************)
EXTENDS Integers, Sequences, FiniteSets, TLC

(***************************************************************************)
(* Bounds of the model.                                                    *)
(***************************************************************************)
MaxPlugins == 2

(***************************************************************************)
(* Variables of the plugin hook orchestrator.                              *)
(***************************************************************************)
VARIABLES
  plugins,      \* this.plugins, in Map insertion order: records [name, hook, onError]
  hookName,     \* the hookName argument of the running executeHook call
  hpc,          \* position of executeHook: "idle", "loop", "join", "done", "rejected"
  hidx,         \* index of the plugin the for..of loop visits next
  promises,     \* the local array `promises` (references to promises)
  hres,         \* per plugin: state of the promise returned by its handler
  pchain,       \* per plugin: state of p = result.catch(...)
  eres,         \* per plugin: state of the promise returned by its onError
  invoked,      \* per plugin: number of invocations of its handler
  onErrCalls,   \* per plugin: number of invocations of its onError
  onErrArgs,    \* per plugin: the arguments (error, context) given to onError
  warns,        \* the console.warn "hook ... failed" messages, in order
  errs,         \* the console.error "onError hook also failed" messages
  payload,      \* the ...args of the running executeHook call
  received      \* per plugin: the argument lists its handler was called with

hookVars == <<plugins, hookName, hpc, hidx, promises, hres, pchain, eres,
              invoked, onErrCalls, onErrArgs, warns, errs, payload, received>>

(***************************************************************************)
(* Variables of the template materialization pipeline.                     *)
(***************************************************************************)
VARIABLES
  template,     \* the TemplateConfig argument: [files, dependencies, postInstall]
  gconfig,      \* the GeneratorConfig argument: [projectName, template, installDeps]
  gpc,          \* position of generate
  fidx,         \* index of the FileSpec the loop of generateFiles visits next
  dirExists,    \* whether the project directory exists on disk
  disk,         \* the files below the project directory: path -> content
  glog,         \* history: the steps generate has performed, in order
  installState, \* "none", "pending", "ok", "failed": the `npm install` process
  postState,    \* "none", "pending", "resolved", "rejected": postInstall's promise
  failure,      \* history: the value the failing step threw (NoError if none)
  gerror,       \* the value generate rejected with (NoError if none)
  hinted,       \* the manual-recovery hint has been printed
  disk0,        \* history: the files below the project directory at the call
  produced,     \* history: the FileSpecs whose content has been taken
  installs      \* history: the commands given to execAsync, with their cwd

genVars == <<template, gconfig, gpc, fidx, dirExists, disk, glog,
             installState, postState, failure, gerror, hinted, disk0, produced, installs>>

(***************************************************************************)
(* Variables of the prompt resolution engine.                              *)
(***************************************************************************)
VARIABLES
  prompts,            \* this.config.prompts
  cargs,              \* the arguments of collectAnswers: projectName and options
  allowModeSelection, \* this.config.allowModeSelection
  ppc,                \* position of collectAnswers
  pidx,               \* index of the prompt the loop visits next
  answers,            \* the local object `answers`: name -> value or NoKey
  result,             \* the AnswerSet collectAnswers returned
  asks,               \* history, per prompt: invocations of the Line Reader
  modeAsks,           \* history: invocations of the Line Reader for the mode
  rejections,         \* history, per prompt: lines rejected with the error shown
  hidden,             \* history, per prompt: `when` was false at its turn
  writer,             \* history, per name: who stored the value (0: the seed)
  rlMode,             \* the mode given to readlineManager.setMode
  lastLine,           \* history: the line the Line Reader returned last
  raw,                \* history, per prompt: the value processPrompt returned
  transforms,         \* history, per prompt: calls of prompt.transform
  checked,            \* history: the value last given to a validation rule
  perror              \* what collectAnswers rejected with (NoError if it has not)

promptVars == <<prompts, cargs, allowModeSelection, ppc, pidx, answers, result,
                asks, modeAsks, rejections, hidden, writer, rlMode, lastLine,
                raw, transforms, checked, perror>>

(***************************************************************************)
(* Variables of the plugin registry (install and uninstall act on the      *)
(* variable `plugins` above).                                              *)
(***************************************************************************)
VARIABLES
  regCall,      \* history: the last call, install(config) or uninstall(name)
  regBefore,    \* history: this.plugins when that call began
  regError,     \* what that call rejected with (NoError if it resolved)
  regNotice,    \* the line that call wrote with console.log (NoNotice if none)
  uninstalled,  \* history: the names a call of uninstall has removed
  regResult     \* what the last call returned (NoResult if it returns nothing)

regVars == <<regCall, regBefore, regError, regNotice, uninstalled, regResult>>

(***************************************************************************)
(* Variables of the CLI driver.                                            *)
(***************************************************************************)
VARIABLES
  cli,          \* the CLIConfig given to createCLI: [templates, plugins]
  rpc,          \* position of run
  ranswers,     \* the local `answers` of run (NoAnswers before it is set)
  caught,       \* the error the catch block of run has received (NoError: none)
  rejection,    \* what the promise of run rejected with (NoError: it has not)
  exitCode,     \* the call of process.exit (NoExit if there was none)
  hookEvents    \* history: the events run has called executeHook with

runVars == <<cli, rpc, ranswers, caught, rejection, exitCode, hookEvents>>

(***************************************************************************)
(* Variables of the UIManager.                                             *)
(***************************************************************************)
VARIABLES
  theme,        \* this.theme: the colours of the messages
  console,      \* history: the lines written with console.log, in order
  uiError,      \* what the last call of a show method threw (NoError if nothing)
  lastShow,     \* history: the last call of a show method, [method, message]
  shows         \* history: the number of calls of show methods

uiVars == <<theme, console, uiError, lastShow, shows>>

(***************************************************************************)
(* Variables of the ReadlineManager.                                       *)
(***************************************************************************)
VARIABLES
  mode,           \* this.mode
  asyncInterface, \* this.asyncInterface: the number of an interface, 0: undefined
  syncInterface,  \* this.syncInterface: the number of an interface, 0: undefined
  interfaces,     \* history: every interface created, [kind, open], by number
  pending,        \* the interface whose last question waits for a line, 0: none
  rlCall          \* history: the last call and the call before it

rlVars == <<mode, asyncInterface, syncInterface, interfaces, pending, rlCall>>

vars == <<hookVars, genVars, promptVars, regVars, runVars, uiVars, rlVars>>

\* The variables an action of one component leaves alone.
notHook == <<genVars, promptVars, regVars, runVars, uiVars, rlVars>>
notGen == <<hookVars, promptVars, regVars, runVars, uiVars, rlVars>>
notPrompt == <<hookVars, genVars, regVars, runVars, theme, uiError, lastShow, shows>>
notRegistry == <<hookName, hpc, hidx, promises, hres, pchain, eres, invoked,
                 onErrCalls, onErrArgs, warns, errs, payload, received,
                 genVars, promptVars, runVars, uiVars, rlVars>>
notRun == <<hookVars, promptVars, regVars, theme, uiError, lastShow, shows>>
notUi == <<hookVars, genVars, promptVars, regVars, runVars, rlVars>>
notReadline == <<hookVars, genVars, promptVars, regVars, runVars, uiVars>>

(***************************************************************************)
(* PluginHooks: the events a handler can be defined for, and what a        *)
(* caller-supplied handler can do when it is called.                       *)
(***************************************************************************)
HookNames == {"beforeGenerate", "afterGenerate"}

\* "none": the plugin defines no handler; "sync": returns a value that is
\* not a Promise; "throw": throws synchronously; "async": returns a Promise
\* that the environment later resolves or rejects (or never settles).
HandlerKinds == {"none", "sync", "throw", "async"}

PluginNames == <<"p1", "p2", "p3", "p4">>

PluginConfig(n, h, oe) == [name |-> n, hook |-> h, onError |-> oe]

\* Every registry of 1..MaxPlugins plugins with distinct names.
Registries ==
  UNION { { [i \in 1..n |-> PluginConfig(PluginNames[i], hk[i], oe[i])] :
              hk \in [1..n -> HandlerKinds], oe \in [1..n -> HandlerKinds] } :
          n \in 1..MaxPlugins }

PromiseStates == {"none", "pending", "resolved", "rejected"}
Settled(s) == s \in {"resolved", "rejected"}

\* The state of the promise a reference of the `promises` array denotes.
PromiseState(ref) ==
  IF ref[1] = "p" THEN pchain[ref[2]] ELSE eres[ref[2]]

\* Promise.allSettled(promises) has fulfilled: every promise has settled.
AllSettled(ps) == \A k \in 1..Len(ps) : Settled(PromiseState(ps[k]))

\* `hook:${hookName}`
ErrorContext(h) == <<"hook:", h>>

\* The value the handler of plugin i throws or rejects with, and the value
\* its onError handler throws or rejects with.
HandlerError(i) == [thrownBy |-> plugins[i].name, in |-> "hook"]
OnErrorError(i) == [thrownBy |-> plugins[i].name, in |-> "onError"]

\* Variant: the context string is the bare event name.
OnErrorArgsBare(i) == <<HandlerError(i), <<hookName>>>>

\* plugin.hooks.onError(err, `hook:${hookName}`): the arguments
OnErrorArgs(i) == <<HandlerError(i), ErrorContext(hookName)>>

\* console.warn(`Warning: Plugin '${plugin.name}' hook '${hookName}' failed:`, err)
HookWarning(i) ==
  [plugin |-> plugins[i].name, hook |-> hookName, error |-> HandlerError(i)]

\* console.error(`Plugin '${plugin.name}' onError hook also failed:`, onErr)
OnErrorFailure(i) == [plugin |-> plugins[i].name, error |-> OnErrorError(i)]

\* Variant: the Promise returned by onError is not added to `promises`.
PushErrorResultDropped(ps, i) == ps

\* promises.push(errorResult) when errorResult instanceof Promise
PushErrorResult(ps, i) == Append(ps, <<"e", i>>)

\* promises.push(p)
PushChain(ps, i) == Append(ps, <<"p", i>>)

\* The argument lists a caller gives after the event name.
Payloads == { <<>>, <<"config">>, <<"config", "projectPath">> }

\* Variant: a call without arguments hands the handlers a default context.
CallArgsDefaulted == IF payload = <<>> THEN <<"context">> ELSE payload

\* hook(...args): the arguments of the handler call
CallArgs == payload

HookInit ==
  /\ plugins \in Registries
  /\ hookName \in HookNames
  /\ hpc = "loop"
  /\ hidx = 1
  /\ promises = <<>>
  /\ hres = [i \in 1..Len(plugins) |-> "none"]
  /\ pchain = [i \in 1..Len(plugins) |-> "none"]
  /\ eres = [i \in 1..Len(plugins) |-> "none"]
  /\ invoked = [i \in 1..Len(plugins) |-> 0]
  /\ onErrCalls = [i \in 1..Len(plugins) |-> 0]
  /\ onErrArgs = [i \in 1..Len(plugins) |-> <<>>]
  /\ warns = <<>>
  /\ errs = <<>>
  /\ payload \in Payloads
  /\ received = [i \in 1..Len(plugins) |-> <<>>]

\* The plugin defines no handler for hookName: the loop moves on.
HookSkip ==
  /\ hpc = "loop" /\ hidx <= Len(plugins)
  /\ plugins[hidx].hook = "none"
  /\ hidx' = hidx + 1
  /\ UNCHANGED <<plugins, hookName, hpc, promises, hres, pchain, eres,
                 invoked, onErrCalls, onErrArgs, warns, errs>>
  /\ UNCHANGED <<payload, received>>
  /\ UNCHANGED notHook

\* The handler returns a value that is not a Promise: nothing is recorded.
HookCallSync ==
  /\ hpc = "loop" /\ hidx <= Len(plugins)
  /\ plugins[hidx].hook = "sync"
  /\ invoked' = [invoked EXCEPT ![hidx] = @ + 1]
  /\ hidx' = hidx + 1
  /\ UNCHANGED <<plugins, hookName, hpc, promises, hres, pchain, eres,
                 onErrCalls, onErrArgs, warns, errs>>
  /\ received' = [received EXCEPT ![hidx] = Append(@, CallArgs)]
  /\ UNCHANGED payload
  /\ UNCHANGED notHook

\* Variant: the loop awaits the Promise of a handler before it moves on.
HookCallAsyncAwaited ==
  /\ hpc = "loop" /\ hidx <= Len(plugins)
  /\ plugins[hidx].hook = "async"
  /\ invoked' = [invoked EXCEPT ![hidx] = @ + 1]
  /\ hres' = [hres EXCEPT ![hidx] = "resolved"]
  /\ pchain' = [pchain EXCEPT ![hidx] = "resolved"]
  /\ promises' = PushChain(promises, hidx)
  /\ hidx' = hidx + 1
  /\ UNCHANGED <<plugins, hookName, hpc, eres, onErrCalls, onErrArgs, warns, errs>>
  /\ received' = [received EXCEPT ![hidx] = Append(@, CallArgs)]
  /\ UNCHANGED payload
  /\ UNCHANGED notHook

\* The handler returns a Promise: p = result.catch(...) is pushed.
HookCallAsync ==
  /\ hpc = "loop" /\ hidx <= Len(plugins)
  /\ plugins[hidx].hook = "async"
  /\ invoked' = [invoked EXCEPT ![hidx] = @ + 1]
  /\ hres' = [hres EXCEPT ![hidx] = "pending"]
  /\ pchain' = [pchain EXCEPT ![hidx] = "pending"]
  /\ promises' = PushChain(promises, hidx)
  /\ hidx' = hidx + 1
  /\ UNCHANGED <<plugins, hookName, hpc, eres, onErrCalls, onErrArgs, warns, errs>>
  /\ received' = [received EXCEPT ![hidx] = Append(@, CallArgs)]
  /\ UNCHANGED payload
  /\ UNCHANGED notHook

\* Variant: no try/catch around the handler call, the throw leaves executeHook.
HookCallThrowUncaught ==
  /\ hpc = "loop" /\ hidx <= Len(plugins)
  /\ plugins[hidx].hook = "throw"
  /\ invoked' = [invoked EXCEPT ![hidx] = @ + 1]
  /\ hpc' = "rejected"
  /\ UNCHANGED <<plugins, hookName, hidx, promises, hres, pchain, eres,
                 onErrCalls, onErrArgs, warns, errs>>
  /\ received' = [received EXCEPT ![hidx] = Append(@, CallArgs)]
  /\ UNCHANGED payload
  /\ UNCHANGED notHook

\* The handler throws: the catch block warns and forwards to onError.
HookCallThrow ==
  /\ hpc = "loop" /\ hidx <= Len(plugins)
  /\ plugins[hidx].hook = "throw"
  /\ invoked' = [invoked EXCEPT ![hidx] = @ + 1]
  /\ warns' = Append(warns, HookWarning(hidx))
  /\ LET oe == plugins[hidx].onError IN
       /\ onErrCalls' = IF oe = "none" THEN onErrCalls
                        ELSE [onErrCalls EXCEPT ![hidx] = @ + 1]
       /\ onErrArgs' = IF oe = "none" THEN onErrArgs
                      ELSE [onErrArgs EXCEPT ![hidx] = OnErrorArgs(hidx)]
       /\ errs' = IF oe = "throw" THEN Append(errs, OnErrorFailure(hidx)) ELSE errs
       /\ eres' = IF oe = "async" THEN [eres EXCEPT ![hidx] = "pending"] ELSE eres
       /\ promises' = IF oe = "async" THEN PushErrorResult(promises, hidx)
                      ELSE promises
  /\ hidx' = hidx + 1
  /\ UNCHANGED <<plugins, hookName, hpc, hres, pchain>>
  /\ received' = [received EXCEPT ![hidx] = Append(@, CallArgs)]
  /\ UNCHANGED payload
  /\ UNCHANGED notHook

\* The for..of loop has visited every plugin.
HookLoopEnd ==
  /\ hpc = "loop" /\ hidx > Len(plugins)
  /\ hpc' = "join"
  /\ UNCHANGED <<plugins, hookName, hidx, promises, hres, pchain, eres,
                 invoked, onErrCalls, onErrArgs, warns, errs>>
  /\ UNCHANGED <<payload, received>>
  /\ UNCHANGED notHook

\* The environment settles the promise a handler returned.  The loop of
\* executeHook is synchronous, so nothing settles while it runs.
HandlerSettle(i, outcome) ==
  /\ hpc = "join"
  /\ hres[i] = "pending"
  /\ hres' = [hres EXCEPT ![i] = outcome]
  /\ UNCHANGED <<plugins, hookName, hpc, hidx, promises, pchain, eres,
                 invoked, onErrCalls, onErrArgs, warns, errs>>
  /\ UNCHANGED <<payload, received>>
  /\ UNCHANGED notHook

\* result fulfilled: p = result.catch(...) fulfils with the same value.
ChainPassThrough(i) ==
  /\ hpc = "join"
  /\ pchain[i] = "pending" /\ hres[i] = "resolved"
  /\ pchain' = [pchain EXCEPT ![i] = "resolved"]
  /\ UNCHANGED <<plugins, hookName, hpc, hidx, promises, hres, eres,
                 invoked, onErrCalls, onErrArgs, warns, errs>>
  /\ UNCHANGED <<payload, received>>
  /\ UNCHANGED notHook

\* result rejected: the async catch callback runs.  It warns and, when the
\* plugin has an onError, returns onError(err, ctx) from inside the try: a
\* synchronous throw of onError is caught and logged, a Promise returned by
\* onError is adopted by p (its rejection is not caught by the try).
ChainCatch(i) ==
  /\ hpc = "join"
  /\ pchain[i] = "pending" /\ hres[i] = "rejected" /\ eres[i] = "none"
  /\ warns' = Append(warns, HookWarning(i))
  /\ LET oe == plugins[i].onError IN
       /\ onErrCalls' = IF oe = "none" THEN onErrCalls
                        ELSE [onErrCalls EXCEPT ![i] = @ + 1]
       /\ onErrArgs' = IF oe = "none" THEN onErrArgs
                      ELSE [onErrArgs EXCEPT ![i] = OnErrorArgs(i)]
       /\ errs' = IF oe = "throw" THEN Append(errs, OnErrorFailure(i)) ELSE errs
       /\ eres' = IF oe = "async" THEN [eres EXCEPT ![i] = "pending"] ELSE eres
       /\ pchain' = IF oe = "async" THEN pchain
                    ELSE [pchain EXCEPT ![i] = "resolved"]
  /\ UNCHANGED <<plugins, hookName, hpc, hidx, promises, hres, invoked>>
  /\ UNCHANGED <<payload, received>>
  /\ UNCHANGED notHook

\* The environment settles the promise an onError handler returned.
OnErrorSettle(i, outcome) ==
  /\ hpc = "join"
  /\ eres[i] = "pending"
  /\ eres' = [eres EXCEPT ![i] = outcome]
  /\ UNCHANGED <<plugins, hookName, hpc, hidx, promises, hres, pchain,
                 invoked, onErrCalls, onErrArgs, warns, errs>>
  /\ UNCHANGED <<payload, received>>
  /\ UNCHANGED notHook

\* p adopts the state of the promise onError returned from the callback.
ChainAdopt(i) ==
  /\ hpc = "join"
  /\ pchain[i] = "pending" /\ hres[i] = "rejected" /\ Settled(eres[i])
  /\ pchain' = [pchain EXCEPT ![i] = eres[i]]
  /\ UNCHANGED <<plugins, hookName, hpc, hidx, promises, hres, eres,
                 invoked, onErrCalls, onErrArgs, warns, errs>>
  /\ UNCHANGED <<payload, received>>
  /\ UNCHANGED notHook

\* if (promises.length > 0) await Promise.allSettled(promises); return
HookReturn ==
  /\ hpc = "join"
  /\ AllSettled(promises)
  /\ hpc' = "done"
  /\ UNCHANGED <<plugins, hookName, hidx, promises, hres, pchain, eres,
                 invoked, onErrCalls, onErrArgs, warns, errs>>
  /\ UNCHANGED <<payload, received>>
  /\ UNCHANGED notHook

executeHook ==
  \/ HookSkip
  \/ HookCallSync
  \/ HookCallAsync
  \/ HookCallThrow
  \/ HookLoopEnd
  \/ HookReturn

HookEnvironment ==
  \/ \E i \in 1..Len(plugins), o \in {"resolved", "rejected"} : HandlerSettle(i, o)
  \/ \E i \in 1..Len(plugins), o \in {"resolved", "rejected"} : OnErrorSettle(i, o)
  \/ \E i \in 1..Len(plugins) : ChainPassThrough(i)
  \/ \E i \in 1..Len(plugins) : ChainCatch(i)
  \/ \E i \in 1..Len(plugins) : ChainAdopt(i)

(***************************************************************************)
(* Template Materialization Pipeline: ProjectGenerator.generate.           *)
(***************************************************************************)
Undef == "undefined"

MaxFiles == 2

FilePaths == {"a.txt", "b.txt", "package.json"}
FileContents == {"", "x"}

\* Files.condition: absent, or a predicate that is true or false of the answers
Conditions == {"none", "true", "false"}

FileSpecs == [path : FilePaths, content : FileContents, condition : Conditions]

FileLists == UNION { [1..n -> FileSpecs] : n \in 0..MaxFiles }

ProjectName == "app"
TemplateName == "tpl"

\* template.dependencies is undefined
NoDeps == [undefined |-> TRUE]

\* A declared Dependencies object of a template (types: Dependencies).
DeclaredDeps ==
  [dependencies |-> "deps", devDepencies |-> "devDeps", peerDependencies |-> "peerDeps"]

\* Dependencies objects that declare no map, the runtime map only, and the
\* maps under the names of the README's Quick Start.
EmptyDeps == [key \in {} |-> "{}"]
RuntimeDeps == [dependencies |-> "deps"]
ReadmeDeps == [production |-> "deps", development |-> "devDeps"]

\* Contents of a path on disk.
Absent == [absent |-> TRUE]
Text(s) == [text |-> s]
Json(obj) == [json |-> obj]

\* Error values.  isError: the value is an instance of Error.
NoError == [none |-> TRUE]
Thrown(isErr, tag) ==
  [isError |-> isErr, code |-> IF isErr THEN "Error" ELSE "NotAnError",
   message |-> <<tag>>, context |-> [none |-> TRUE]]

Context(op, pn, tpl, fp) ==
  [operation |-> op, projectName |-> pn, template |-> tpl, filePath |-> fp]

\* ErrorFactory.filesystem(message, context)
ErrorFactoryFilesystem(msg, ctx) ==
  [isError |-> TRUE, code |-> "FILESYSTEM_ERROR", message |-> msg, context |-> ctx]

\* ErrorFactory.dependency(message, context)
ErrorFactoryDependency(msg, ctx) ==
  [isError |-> TRUE, code |-> "DEPENDENCY_ERROR", message |-> msg, context |-> ctx]

\* Variant: generate has no catch block, every error leaves it as thrown.
GenerateCatchRethrow(err) == err

\* The catch block of generate: an Error is wrapped, anything else rethrown.
GenerateCatch(err) ==
  IF err.isError
  THEN ErrorFactoryFilesystem(<<"Failed to generate project: ">> \o err.message,
         Context("generate", gconfig.projectName, gconfig.template, Undef))
  ELSE err

\* Variant: generateFiles has no catch block.
GenerateFilesCatchRethrow(err) == err

\* The catch block of generateFiles.
GenerateFilesCatch(err) ==
  IF err.isError
  THEN ErrorFactoryFilesystem(<<"Failed to generate files: ">> \o err.message,
         Context("generateFiles", gconfig.projectName, gconfig.template, Undef))
  ELSE err

\* The catch block of generatePackageJson.
GeneratePackageJsonCatch(err) ==
  IF err.isError
  THEN ErrorFactoryFilesystem(<<"Failed to generate package.json: ">> \o err.message,
         Context("generatePackageJson", gconfig.projectName, Undef, "package.json"))
  ELSE err

\* The Error branch of the catch block of installDependencies.
InstallDependenciesCatch(err) ==
  ErrorFactoryDependency(<<"Failed to install dependencies: ">> \o err.message,
    Context("installDependencies", Undef, Undef, "."))

\* obj[key]: the value of the property, undefined when there is none
Field(obj, key) == IF key \in DOMAIN obj THEN obj[key] ELSE Undef

\* template.dependencies?.[key]
DependenciesField(key) ==
  IF template.dependencies = NoDeps THEN Undef
  ELSE Field(template.dependencies, key)

\* value || {}
OrEmpty(value) == IF value = Undef THEN "{}" ELSE value

\* The packageJson object generatePackageJson composes, as JSON.stringify
\* writes it: the properties in the order of the object literal.
PackageJson ==
  << <<"name", gconfig.projectName>>,
     <<"version", "0.1.0">>,
     <<"private", "true">>,
     <<"scripts", OrEmpty(template.scripts)>>,
     <<"dependencies", OrEmpty(DependenciesField("dependencies"))>>,
     <<"devDependencies", OrEmpty(DependenciesField("devDepencies"))>>,
     <<"peerDependencies", OrEmpty(DependenciesField("peerDependencies"))>> >>

\* join(config.outputPath, config.projectName)
ProjectPath == <<"cwd", gconfig.projectName>>

\* The project directory does not exist yet.
EmptyDisk == [p \in FilePaths |-> Absent]

\* What generate can find below the project path: nothing, or the file an
\* earlier generate for the same project name has written.
EarlierDisks == { EmptyDisk, [EmptyDisk EXCEPT !["a.txt"] = Text("old")] }

\* Variant: the condition of a FileSpec is not consulted.
ExcludedNever(file) == FALSE

\* file.condition && !file.condition(config.answers)
Excluded(file) == file.condition = "false"

\* Variant: the installDeps answer is not consulted.
ShouldInstallAlways == template.dependencies # NoDeps

\* template.dependencies && config.answers.installDeps !== false
ShouldInstall == template.dependencies # NoDeps /\ gconfig.installDeps # "false"

GenInit ==
  /\ template \in [files : FileLists,
                   dependencies : {NoDeps, DeclaredDeps},
                   scripts : {Undef},
                   postInstall : BOOLEAN]
  /\ gconfig \in [projectName : {ProjectName}, template : {TemplateName},
                  installDeps : {Undef, "true", "false"}]
  /\ gpc = "ensureDir"
  /\ fidx = 1
  /\ disk0 \in EarlierDisks
  /\ disk = disk0
  /\ dirExists = (disk0 # EmptyDisk)
  /\ produced = {}
  /\ installs = <<>>
  /\ glog = <<>>
  /\ installState = "none"
  /\ postState = "none"
  /\ failure = NoError
  /\ gerror = NoError
  /\ hinted = FALSE

\* Variant: the project directory is emptied when it exists already.
GenEnsureDirEmptied ==
  /\ gpc = "ensureDir"
  /\ dirExists' = TRUE
  /\ disk' = EmptyDisk
  /\ glog' = Append(glog, <<"ensureDir">>)
  /\ gpc' = "files"
  /\ UNCHANGED <<disk0, produced, installs>>
  /\ UNCHANGED <<template, gconfig, fidx, installState, postState,
                 failure, gerror, hinted>>
  /\ UNCHANGED notGen

\* await ensureDir(projectPath)
GenEnsureDir ==
  /\ gpc = "ensureDir"
  /\ dirExists' = TRUE
  /\ glog' = Append(glog, <<"ensureDir">>)
  /\ gpc' = "files"
  /\ UNCHANGED <<disk0, produced, installs>>
  /\ UNCHANGED <<template, gconfig, fidx, disk, installState, postState,
                 failure, gerror, hinted>>
  /\ UNCHANGED notGen

\* ensureDir(projectPath) fails: the catch block of generate wraps the error
GenEnsureDirFail ==
  /\ gpc = "ensureDir"
  /\ gpc' = "rejected"
  /\ failure' = Thrown(TRUE, "ensureDir")
  /\ gerror' = GenerateCatch(Thrown(TRUE, "ensureDir"))
  /\ UNCHANGED <<disk0, produced, installs>>
  /\ UNCHANGED <<template, gconfig, fidx, dirExists, disk, glog, installState,
                 postState, hinted>>
  /\ UNCHANGED notGen

\* generateFiles: the FileSpec's condition is false: continue
GenFileSkip ==
  /\ gpc = "files" /\ fidx <= Len(template.files)
  /\ Excluded(template.files[fidx])
  /\ fidx' = fidx + 1
  /\ UNCHANGED <<disk0, produced, installs>>
  /\ UNCHANGED <<template, gconfig, gpc, dirExists, disk, glog, installState,
                 postState, failure, gerror, hinted>>
  /\ UNCHANGED notGen

\* Variant: a path that exists already is left as it is.
GenFileWriteKeepExisting ==
  /\ gpc = "files" /\ fidx <= Len(template.files)
  /\ ~Excluded(template.files[fidx])
  /\ LET file == template.files[fidx] IN
       /\ disk' = IF disk[file.path] = Absent
                  THEN [disk EXCEPT ![file.path] = Text(file.content)]
                  ELSE disk
       /\ glog' = Append(glog, <<"write", fidx>>)
  /\ produced' = produced \cup {fidx}
  /\ fidx' = fidx + 1
  /\ UNCHANGED <<disk0, installs>>
  /\ UNCHANGED <<template, gconfig, gpc, dirExists, installState, postState,
                 failure, gerror, hinted>>
  /\ UNCHANGED notGen

\* generateFiles: the content is taken (file.content or file.content(answers)),
\* then ensureDir(dirname(filePath)); writeFile(filePath, content)
GenFileWrite ==
  /\ gpc = "files" /\ fidx <= Len(template.files)
  /\ ~Excluded(template.files[fidx])
  /\ LET file == template.files[fidx] IN
       /\ disk' = [disk EXCEPT ![file.path] = Text(file.content)]
       /\ glog' = Append(glog, <<"write", fidx>>)
  /\ produced' = produced \cup {fidx}
  /\ fidx' = fidx + 1
  /\ UNCHANGED <<disk0, installs>>
  /\ UNCHANGED <<template, gconfig, gpc, dirExists, installState, postState,
                 failure, gerror, hinted>>
  /\ UNCHANGED notGen

\* Variant: a failed write removes what generateFiles has written so far.
GenFileFailRollback ==
  /\ gpc = "files" /\ fidx <= Len(template.files)
  /\ ~Excluded(template.files[fidx])
  /\ gpc' = "rejected"
  /\ failure' = Thrown(TRUE, "writeFile")
  /\ gerror' = GenerateCatch(GenerateFilesCatch(Thrown(TRUE, "writeFile")))
  /\ disk' = disk0
  /\ produced' = produced \cup {fidx}
  /\ UNCHANGED <<disk0, installs>>
  /\ UNCHANGED <<template, gconfig, fidx, dirExists, glog, installState,
                 postState, hinted>>
  /\ UNCHANGED notGen

\* generateFiles: ensureDir or writeFile fails for the FileSpec; the catch
\* block of generateFiles wraps the error and the one of generate wraps it
\* again.  The content has been taken by then; a failed write leaves the
\* disk as it was.
GenFileFail ==
  /\ gpc = "files" /\ fidx <= Len(template.files)
  /\ ~Excluded(template.files[fidx])
  /\ gpc' = "rejected"
  /\ failure' = Thrown(TRUE, "writeFile")
  /\ gerror' = GenerateCatch(GenerateFilesCatch(Thrown(TRUE, "writeFile")))
  /\ produced' = produced \cup {fidx}
  /\ UNCHANGED <<disk0, installs>>
  /\ UNCHANGED <<template, gconfig, fidx, dirExists, disk, glog, installState,
                 postState, hinted>>
  /\ UNCHANGED notGen

\* generateFiles: the loop has ended
GenFilesDone ==
  /\ gpc = "files" /\ fidx > Len(template.files)
  /\ gpc' = "manifest"
  /\ UNCHANGED <<disk0, produced, installs>>
  /\ UNCHANGED <<template, gconfig, fidx, dirExists, disk, glog, installState,
                 postState, failure, gerror, hinted>>
  /\ UNCHANGED notGen

\* Variant: the manifest is written only when no package.json is there.
GenPackageJsonIfAbsent ==
  /\ gpc = "manifest"
  /\ disk' = IF disk["package.json"] = Absent
             THEN [disk EXCEPT !["package.json"] = Json(PackageJson)]
             ELSE disk
  /\ glog' = Append(glog, <<"manifest">>)
  /\ gpc' = "install"
  /\ UNCHANGED <<disk0, produced, installs>>
  /\ UNCHANGED <<template, gconfig, fidx, dirExists, installState, postState,
                 failure, gerror, hinted>>
  /\ UNCHANGED notGen

\* generatePackageJson: writeJson(join(projectPath, 'package.json'), packageJson)
GenPackageJson ==
  /\ gpc = "manifest"
  /\ disk' = [disk EXCEPT !["package.json"] = Json(PackageJson)]
  /\ glog' = Append(glog, <<"manifest">>)
  /\ gpc' = "install"
  /\ UNCHANGED <<disk0, produced, installs>>
  /\ UNCHANGED <<template, gconfig, fidx, dirExists, installState, postState,
                 failure, gerror, hinted>>
  /\ UNCHANGED notGen

\* generatePackageJson: writeJson fails; both catch blocks wrap the error
GenPackageJsonFail ==
  /\ gpc = "manifest"
  /\ gpc' = "rejected"
  /\ failure' = Thrown(TRUE, "writeJson")
  /\ gerror' = GenerateCatch(GeneratePackageJsonCatch(Thrown(TRUE, "writeJson")))
  /\ UNCHANGED <<disk0, produced, installs>>
  /\ UNCHANGED <<template, gconfig, fidx, dirExists, disk, glog, installState,
                 postState, hinted>>
  /\ UNCHANGED notGen

\* the guard of the install step is false
GenInstallSkip ==
  /\ gpc = "install"
  /\ ~ShouldInstall
  /\ gpc' = "post"
  /\ UNCHANGED <<disk0, produced, installs>>
  /\ UNCHANGED <<template, gconfig, fidx, dirExists, disk, glog, installState,
                 postState, failure, gerror, hinted>>
  /\ UNCHANGED notGen

\* installDependencies: execAsync('npm install', {cwd: projectPath}) starts
GenInstallStart ==
  /\ gpc = "install"
  /\ ShouldInstall
  /\ installState' = "pending"
  /\ installs' = Append(installs, [command |-> "npm install", cwd |-> ProjectPath])
  /\ glog' = Append(glog, <<"install">>)
  /\ gpc' = "installing"
  /\ UNCHANGED <<disk0, produced>>
  /\ UNCHANGED <<template, gconfig, fidx, dirExists, disk, postState,
                 failure, gerror, hinted>>
  /\ UNCHANGED notGen

\* the install command exits successfully
GenInstallOk ==
  /\ gpc = "installing"
  /\ installState' = "ok"
  /\ gpc' = "post"
  /\ UNCHANGED <<disk0, produced, installs>>
  /\ UNCHANGED <<template, gconfig, fidx, dirExists, disk, glog, postState,
                 failure, gerror, hinted>>
  /\ UNCHANGED notGen

\* the install command fails with an Error (what child_process gives): the
\* catch block throws a DependencyError, which the catch of generate wraps.
GenInstallFail ==
  /\ gpc = "installing"
  /\ installState' = "failed"
  /\ gpc' = "rejected"
  /\ failure' = Thrown(TRUE, "npm install")
  /\ gerror' = GenerateCatch(InstallDependenciesCatch(Thrown(TRUE, "npm install")))
  /\ UNCHANGED <<disk0, produced, installs>>
  /\ UNCHANGED <<template, gconfig, fidx, dirExists, disk, glog, postState, hinted>>
  /\ UNCHANGED notGen

\* the install command rejects with a value that is not an Error: the catch
\* block prints the manual-recovery hint and installDependencies returns.
GenInstallFailNonError ==
  /\ gpc = "installing"
  /\ installState' = "failed"
  /\ failure' = Thrown(FALSE, "npm install")
  /\ hinted' = TRUE
  /\ gpc' = "post"
  /\ UNCHANGED <<disk0, produced, installs>>
  /\ UNCHANGED <<template, gconfig, fidx, dirExists, disk, glog, postState, gerror>>
  /\ UNCHANGED notGen

\* no postInstall declared: generate resolves
GenPostSkip ==
  /\ gpc = "post"
  /\ ~template.postInstall
  /\ gpc' = "resolved"
  /\ UNCHANGED <<disk0, produced, installs>>
  /\ UNCHANGED <<template, gconfig, fidx, dirExists, disk, glog, installState,
                 postState, failure, gerror, hinted>>
  /\ UNCHANGED notGen

\* Variant: installDependencies is not awaited before postInstall is called.
GenPostStartNoAwait ==
  /\ gpc \in {"post", "installing"}
  /\ template.postInstall
  /\ postState' = "pending"
  /\ glog' = Append(glog, <<"postInstall">>)
  /\ gpc' = "posting"
  /\ UNCHANGED <<disk0, produced, installs>>
  /\ UNCHANGED <<template, gconfig, fidx, dirExists, disk, installState,
                 failure, gerror, hinted>>
  /\ UNCHANGED notGen

\* await template.postInstall(projectPath, config.answers): the call
GenPostStart ==
  /\ gpc = "post"
  /\ template.postInstall
  /\ postState' = "pending"
  /\ glog' = Append(glog, <<"postInstall">>)
  /\ gpc' = "posting"
  /\ UNCHANGED <<disk0, produced, installs>>
  /\ UNCHANGED <<template, gconfig, fidx, dirExists, disk, installState,
                 failure, gerror, hinted>>
  /\ UNCHANGED notGen

\* postInstall's promise fulfils: generate resolves
GenPostResolve ==
  /\ gpc = "posting"
  /\ postState' = "resolved"
  /\ gpc' = "resolved"
  /\ UNCHANGED <<disk0, produced, installs>>
  /\ UNCHANGED <<template, gconfig, fidx, dirExists, disk, glog, installState,
                 failure, gerror, hinted>>
  /\ UNCHANGED notGen

\* postInstall's promise rejects with err: the catch block of generate runs
GenPostReject(isErr) ==
  /\ gpc = "posting"
  /\ postState' = "rejected"
  /\ gpc' = "rejected"
  /\ failure' = Thrown(isErr, "postInstall")
  /\ gerror' = GenerateCatch(Thrown(isErr, "postInstall"))
  /\ UNCHANGED <<disk0, produced, installs>>
  /\ UNCHANGED <<template, gconfig, fidx, dirExists, disk, glog, installState, hinted>>
  /\ UNCHANGED notGen

generate ==
  \/ GenEnsureDir
  \/ GenEnsureDirFail
  \/ GenFileSkip
  \/ GenFileWrite
  \/ GenFileFail
  \/ GenFilesDone
  \/ GenPackageJson
  \/ GenPackageJsonFail
  \/ GenInstallSkip
  \/ GenInstallStart
  \/ GenInstallOk
  \/ GenInstallFail
  \/ GenInstallFailNonError
  \/ GenPostSkip
  \/ GenPostStart
  \/ GenPostResolve
  \/ \E isErr \in BOOLEAN : GenPostReject(isErr)

(***************************************************************************)
(* UIManager and the colour helper hex: the styled console messages.      *)
(* Strings are sequences of characters; the glyph of a prefix is written  *)
(* as its code points.                                                     *)
(***************************************************************************)
MaxShows == 2

NaN == [nan |-> TRUE]

\* The theme of a UIManager constructed without one; themes.default has the
\* same colours.
DefaultTheme ==
  [ primary |-> <<"#", "3", "b", "8", "2", "f", "6">>,
    success |-> <<"#", "1", "0", "b", "9", "8", "1">>,
    error |-> <<"#", "e", "f", "4", "4", "4", "4">>,
    warning |-> <<"#", "f", "5", "9", "e", "0", "b">>,
    info |-> <<"#", "0", "6", "b", "6", "d", "4">> ]

\* themes.dark
DarkTheme ==
  [ primary |-> <<"#", "6", "0", "a", "5", "f", "a">>,
    success |-> <<"#", "3", "4", "d", "3", "9", "9">>,
    error |-> <<"#", "f", "8", "7", "1", "7", "1">>,
    warning |-> <<"#", "f", "b", "b", "f", "2", "4">>,
    info |-> <<"#", "2", "2", "d", "3", "e", "e">> ]

\* themes.minimal
MinimalTheme ==
  [ primary |-> <<"#", "0", "0", "0", "0", "0", "0">>,
    success |-> <<"#", "0", "0", "8", "0", "0", "0">>,
    error |-> <<"#", "f", "f", "0", "0", "0", "0">>,
    warning |-> <<"#", "f", "f", "a", "5", "0", "0">>,
    info |-> <<"#", "0", "0", "0", "0", "f", "f">> ]

\* themes.vibrant
VibrantTheme ==
  [ primary |-> <<"#", "8", "b", "5", "c", "f", "6">>,
    success |-> <<"#", "0", "6", "d", "6", "a", "0">>,
    error |-> <<"#", "f", "7", "2", "5", "8", "5">>,
    warning |-> <<"#", "f", "f", "b", "e", "0", "b">>,
    info |-> <<"#", "3", "a", "8", "6", "f", "f">> ]

\* A theme of the caller: shorthand colours, colours without '#', no colour.
ShortTheme ==
  [ primary |-> <<"#", "a", "b", "c">>,
    success |-> <<"a", "b", "c">>,
    error |-> <<"#", "a", "b">>,
    warning |-> <<"a", "b", "c", "d", "e", "f">>,
    info |-> <<>> ]

BuiltinThemes == {DefaultTheme, DarkTheme, MinimalTheme, VibrantTheme}

Themes == BuiltinThemes \cup {ShortTheme}

\* The messages a caller shows.
UiMessages == { <<>>, <<"o", "k">>, <<"n", "o", " ", "d", "i", "r">> }

\* The characters /[0-9A-Fa-f]/ matches.
HexDigitsLower ==
  <<"0", "1", "2", "3", "4", "5", "6", "7", "8", "9", "a", "b", "c", "d", "e", "f">>

HexDigitsUpper ==
  <<"0", "1", "2", "3", "4", "5", "6", "7", "8", "9", "A", "B", "C", "D", "E", "F">>

IsHexDigit(c) == \E n \in 1..16 : c = HexDigitsLower[n] \/ c = HexDigitsUpper[n]

HexDigitValue(c) ==
  (CHOOSE n \in 1..16 : c = HexDigitsLower[n] \/ c = HexDigitsUpper[n]) - 1

\* parseInt(s, 16) of a string of at most two characters
RECURSIVE ParseHex(_)
ParseHex(s) ==
  IF s = <<>> \/ ~IsHexDigit(s[1]) THEN NaN
  ELSE IF Len(s) = 1 \/ ~IsHexDigit(s[2]) THEN HexDigitValue(s[1])
  ELSE 16 * HexDigitValue(s[1]) + HexDigitValue(s[2])

\* verifyHexValidity: an Error for a length other than 3 and 6 and for a
\* string /^[0-9A-Fa-f]+$/ does not match, the length otherwise
VerifyHexValidity(hexstr) ==
  IF Len(hexstr) # 3 /\ Len(hexstr) # 6
  THEN [error |-> "length", length |-> Len(hexstr)]
  ELSE IF ~(\A k \in 1..Len(hexstr) : IsHexDigit(hexstr[k]))
  THEN [error |-> "characters"]
  ELSE [length |-> Len(hexstr)]

IsError(v) == "error" \in DOMAIN v

\* fullHex of hex: each character doubled
RECURSIVE Doubled(_)
Doubled(s) == IF s = <<>> THEN <<>> ELSE <<s[1], s[1]>> \o Doubled(Tail(s))

\* s.substring(a, b) with 0 <= a <= b, as 1-based SubSeq
Substring(s, a, b) ==
  SubSeq(s, (IF a < Len(s) THEN a ELSE Len(s)) + 1, IF b < Len(s) THEN b ELSE Len(s))

\* hex(color, txt): [thrown |-> the Error] when it throws, [output |-> the
\* escape sequence around txt] when it returns. The string handed to
\* verifyHexValidity is `input`, which begins with '#'.
Hex(color, txt) ==
  LET input == IF color # <<>> /\ color[1] = "#" THEN color ELSE <<"#">> \o color
      validation == VerifyHexValidity(input)
  IN IF IsError(validation) THEN [thrown |-> validation]
     ELSE LET hexValue == Tail(input)
              fullHex == IF validation.length = 3 THEN Doubled(hexValue) ELSE hexValue
          IN [output |-> [r |-> ParseHex(Substring(fullHex, 0, 2)),
                          g |-> ParseHex(Substring(fullHex, 2, 4)),
                          b |-> ParseHex(Substring(fullHex, 4, 6)),
                          txt |-> txt]]

\* The text showSuccess, showError, showWarning and showInfo hand to hex.
Prefixed(method, message) ==
  CASE method = "showSuccess" -> <<"U+2705", " ">> \o message
    [] method = "showError" -> <<"U+274C", " ">> \o message
    [] method = "showWarning" -> <<"U+26A0", "U+FE0F", " ", " ">> \o message
    [] method = "showInfo" -> <<"U+2139", "U+FE0F", " ">> \o message

\* The colour of the theme a method uses.
ColourOf(method) ==
  CASE method = "showSuccess" -> theme.success
    [] method = "showError" -> theme.error
    [] method = "showWarning" -> theme.warning
    [] method = "showInfo" -> theme.info

NoShow == [none |-> TRUE]

\* What a show method hands to console.log: hex of the colour of the method
\* and the prefixed message (a colour sequence, or the Error hex throws).
Styled(method, message) == Hex(ColourOf(method), Prefixed(method, message))

\* hex has thrown instead of returning.
Throws(styled) == "thrown" \in DOMAIN styled

UiInit ==
  /\ theme \in Themes
  /\ console = <<>>
  /\ uiError = NoError
  /\ lastShow = NoShow
  /\ shows = 0

UiIdle ==
  /\ theme = DefaultTheme /\ console = <<>> /\ uiError = NoError
  /\ lastShow = NoShow /\ shows = 0

\* console.log(bold(hex(colour, prefixed message))); bold returns its argument
Show(method, message) ==
  /\ shows < MaxShows
  /\ LET styled == Hex(ColourOf(method), Prefixed(method, message)) IN
       IF "thrown" \in DOMAIN styled
       THEN uiError' = styled.thrown /\ UNCHANGED console
       ELSE uiError' = NoError /\ console' = Append(console, styled.output)
  /\ lastShow' = [method |-> method, message |-> message]
  /\ shows' = shows + 1
  /\ UNCHANGED theme
  /\ UNCHANGED notUi

showSuccess(message) == Show("showSuccess", message)

showError(message) == Show("showError", message)

showWarning(message) == Show("showWarning", message)

showInfo(message) == Show("showInfo", message)

(***************************************************************************)
(* ReadlineManager: the Line Reader behind the prompts.                    *)
(***************************************************************************)
MaxInterfaces == 3

ReadlineModes == {"async", "sync"}

\* The state after `new ReadlineManager()`.
RlInit ==
  /\ mode = "async"
  /\ asyncInterface = 0 /\ syncInterface = 0
  /\ interfaces = <<>>
  /\ pending = 0
  /\ rlCall = [op |-> "none", before |-> "none"]

RlIdle == RlInit

\* interface.close() for the interfaces the two fields refer to
CloseReferenced(ifs) ==
  [k \in 1..Len(ifs) |->
     IF k = asyncInterface \/ k = syncInterface
     THEN [ifs[k] EXCEPT !.open = FALSE] ELSE ifs[k]]

\* Variant: the mode is changed and the interfaces are left as they are.
SetModeKeepInterfaces(m) ==
  /\ mode' = m
  /\ rlCall' = [op |-> "setMode", before |-> rlCall.op]
  /\ UNCHANGED <<asyncInterface, syncInterface, interfaces, pending>>
  /\ UNCHANGED notReadline

\* setMode(mode): this.mode = mode; this.cleanup()
SetMode(m) ==
  /\ mode' = m
  /\ interfaces' = CloseReferenced(interfaces)
  /\ asyncInterface' = 0 /\ syncInterface' = 0
  /\ rlCall' = [op |-> "setMode", before |-> rlCall.op]
  /\ UNCHANGED pending
  /\ UNCHANGED notReadline

\* questionAsync / questionSync by the mode: the interface is created when
\* the field is undefined
InterfaceOfMode ==
  IF mode = "async"
  THEN /\ asyncInterface = 0 => Len(interfaces) < MaxInterfaces
       /\ IF asyncInterface = 0
          THEN /\ interfaces' = Append(interfaces, [kind |-> "async", open |-> TRUE])
               /\ asyncInterface' = Len(interfaces) + 1
          ELSE UNCHANGED <<interfaces, asyncInterface>>
       /\ UNCHANGED syncInterface
  ELSE /\ syncInterface = 0 => Len(interfaces) < MaxInterfaces
       /\ IF syncInterface = 0
          THEN /\ interfaces' = Append(interfaces, [kind |-> "sync", open |-> TRUE])
               /\ syncInterface' = Len(interfaces) + 1
          ELSE UNCHANGED <<interfaces, syncInterface>>
       /\ UNCHANGED asyncInterface

\* question(query) up to the point where it waits for a line: the question
\* is asked on the interface of the mode
Question ==
  /\ InterfaceOfMode
  /\ pending' = (IF mode = "async" THEN asyncInterface' ELSE syncInterface')
  /\ rlCall' = [op |-> "question", before |-> rlCall.op]
  /\ UNCHANGED mode
  /\ UNCHANGED notReadline

\* `await this.readlineManager.question(query)` as a caller sees it: the
\* question is asked on the interface of the mode and its line has arrived.
ReadLine ==
  /\ InterfaceOfMode
  /\ pending' = 0
  /\ rlCall' = [op |-> "question", before |-> rlCall.op]
  /\ UNCHANGED mode

\* The user types a line: the question of an open interface resolves.
QuestionResolve ==
  /\ pending # 0 /\ interfaces[pending].open
  /\ pending' = 0
  /\ UNCHANGED <<mode, asyncInterface, syncInterface, interfaces, rlCall>>
  /\ UNCHANGED notReadline

\* cleanup(): close and forget the two interfaces
Cleanup ==
  /\ interfaces' = CloseReferenced(interfaces)
  /\ asyncInterface' = 0 /\ syncInterface' = 0
  /\ rlCall' = [op |-> "cleanup", before |-> rlCall.op]
  /\ UNCHANGED <<mode, pending>>
  /\ UNCHANGED notReadline

(***************************************************************************)
(* Prompt Resolution Engine: CLIBuilder.collectAnswers.                    *)
(***************************************************************************)
MaxPrompts == 2
MaxRetries == 2

\* Values of an AnswerSet.  NoKey: the key is not in the object; Undefined:
\* the JavaScript value undefined (a key can hold it).
NoKey == [nokey |-> TRUE]
Undefined == [undefined |-> TRUE]
Str(chars) == [str |-> chars]
Bool(b) == [bool |-> b]
List(vs) == [list |-> vs]
Num(n) == [num |-> n]
Wrapped(v) == [wrapped |-> v]

\* JavaScript truthiness of a value
Truthy(v) ==
  /\ v # Undefined /\ v # NoKey
  /\ v # Str(<<>>)
  /\ v # Bool(FALSE)
  /\ v # Num(0)

\* answers[name] !== undefined
IsDefined(v) == v # NoKey /\ v # Undefined

\* The lines the Line Reader can return, as sequences of characters.
Lines ==
  { <<>>, <<"2">>, <<"Y">>, <<"2", ",", "5", ",", "2", ",", "1">>,
    <<"0">>, <<"3">>, <<"y", " ">> }

AnswerNames == {"projectName", "template", "x"}

\* type PromptType
PromptTypes == {"input", "select", "confirm", "multiselect"}

\* PromptConfig.choices is undefined
NoChoices == [undefined |-> TRUE]

TwoChoices ==
  [list |-> << [name |-> "One", value |-> Str(<<"v", "1">>)],
               [name |-> "Two", value |-> Str(<<"v", "2">>)] >>]

EmptyChoices == [list |-> <<>>]

Prompt(n, t, w, d, v, tr, ch) ==
  [name |-> n, type |-> t, when |-> w, default |-> d, validate |-> v,
   transform |-> tr, choices |-> ch]

\* The prompt definitions a configuration is built from.
\*   when:      "none" | "never" (false of every AnswerSet)
\*              | "ifProject" (answers.projectName is set)
\*   type:      a PromptType, or "password" (not a PromptType: a definition
\*              that reaches processPrompt from untyped configuration)
\*   validate:  "none" | "minLen2" (a string of at least two characters)
\*              | "throws" (the rule throws instead of returning)
\*   transform: "none" | "wrap" | "drop" (returns undefined)
PromptPool ==
  { Prompt("projectName", "input", "none", Undefined, "minLen2", "none", NoChoices),
    Prompt("projectName", "input", "never", Str(<<"d">>), "none", "none", NoChoices),
    Prompt("template", "select", "none", Undefined, "none", "none", TwoChoices),
    Prompt("x", "input", "none", Str(<<"d">>), "none", "drop", NoChoices),
    Prompt("x", "confirm", "ifProject", Bool(TRUE), "none", "none", NoChoices),
    Prompt("x", "multiselect", "none", Undefined, "none", "wrap", TwoChoices),
    Prompt("x", "select", "none", Undefined, "none", "none", NoChoices),
    Prompt("x", "select", "none", Str(<<"v", "1">>), "none", "none", EmptyChoices),
    Prompt("x", "confirm", "none", Bool(FALSE), "none", "none", NoChoices),
    Prompt("x", "confirm", "none", Undefined, "none", "none", NoChoices),
    Prompt("x", "input", "none", Str(<<"d", "e">>), "minLen2", "wrap", NoChoices),
    Prompt("x", "input", "none", Undefined, "throws", "none", NoChoices),
    Prompt("x", "input", "none", Num(0), "none", "none", NoChoices),
    Prompt("x", "password", "none", Undefined, "none", "none", NoChoices) }

PromptLists == UNION { [1..n -> PromptPool] : n \in 1..MaxPrompts }

\* prompt.when(answers), for a prompt that defines `when`
EvalWhen(prompt, ans) ==
  CASE prompt.when = "never" -> FALSE
    [] prompt.when = "ifProject" -> IsDefined(ans["projectName"])
    [] OTHER -> TRUE

\* Variant: the `when` predicate is not consulted.
SkipByWhenIgnored(prompt, ans) == FALSE

\* prompt.when && !prompt.when(answers)
SkipByWhen(prompt, ans) == prompt.when # "none" /\ ~EvalWhen(prompt, ans)

\* Variant: the loop does not look at the answers already present.
AlreadyAnsweredIgnored(prompt, ans) == FALSE

\* answers[prompt.name] !== undefined
AlreadyAnswered(prompt, ans) == IsDefined(ans[prompt.name])

\* prompt.validate.validate(value, answers) === true
Validate(prompt, value) ==
  CASE prompt.validate = "minLen2" -> Len(value.str) >= 2
    [] OTHER -> TRUE

\* prompt.validate.validate(value, answers) throws
ValidateThrows(prompt, value) == prompt.validate = "throws"

\* handleInputPrompt: isValid after one round; without a rule every value is
\* valid, with a rule only a value for which it returns true
InputAccepted(prompt, value) ==
  prompt.validate = "none" \/ Validate(prompt, value)

\* prompt.transform ? prompt.transform(answer) : answer, as calls of transform
TransformCalls(prompt) == IF prompt.transform = "none" THEN 0 ELSE 1

\* Variant: the transform runs on the value the handler returns and again
\* on its own result when the answer is stored.
TransformTwice(prompt, value) ==
  CASE prompt.transform = "wrap" -> Wrapped(Wrapped(value))
    [] prompt.transform = "drop" -> Undefined
    [] OTHER -> value

\* prompt.transform ? prompt.transform(answer) : answer
Transform(prompt, value) ==
  CASE prompt.transform = "wrap" -> Wrapped(value)
    [] prompt.transform = "drop" -> Undefined
    [] OTHER -> value

Digits == {"0", "1", "2", "3", "4", "5", "6", "7", "8", "9"}

DigitValue(c) ==
  CASE c = "0" -> 0 [] c = "1" -> 1 [] c = "2" -> 2 [] c = "3" -> 3 [] c = "4" -> 4
    [] c = "5" -> 5 [] c = "6" -> 6 [] c = "7" -> 7 [] c = "8" -> 8 [] c = "9" -> 9

\* String.prototype.trim, for the whitespace character " "
RECURSIVE TrimStart(_)
TrimStart(s) == IF s # <<>> /\ Head(s) = " " THEN TrimStart(Tail(s)) ELSE s

RECURSIVE TrimEnd(_)
TrimEnd(s) ==
  IF s # <<>> /\ s[Len(s)] = " " THEN TrimEnd(SubSeq(s, 1, Len(s) - 1)) ELSE s

Trim(s) == TrimEnd(TrimStart(s))

\* The value of the longest prefix of digits of s, read after acc.
RECURSIVE DigitsValue(_, _)
DigitsValue(s, acc) ==
  IF s # <<>> /\ Head(s) \in Digits
  THEN DigitsValue(Tail(s), 10 * acc + DigitValue(Head(s)))
  ELSE acc

\* parseInt(s): leading whitespace, an optional sign, then leading digits;
\* NaN when no digit follows.
ParseInt(s) ==
  LET t == TrimStart(s)
      signed == t # <<>> /\ Head(t) \in {"-", "+"}
      body == IF signed THEN Tail(t) ELSE t
  IN IF body = <<>> \/ Head(body) \notin Digits THEN NaN
     ELSE [int |-> IF signed /\ Head(t) = "-" THEN 0 - DigitsValue(body, 0)
                   ELSE DigitsValue(body, 0)]

\* index >= 0 && index < choices.length, for index = parseInt(line) - 1
ValidIndex(n, count) == n # NaN /\ n.int - 1 >= 0 /\ n.int - 1 < count

\* String.prototype.toLowerCase on the characters of Lines
LowerChar(c) ==
  CASE c = "Y" -> "y" [] c = "E" -> "e" [] c = "S" -> "s" [] OTHER -> c

ToLowerCase(s) == [k \in 1..Len(s) |-> LowerChar(s[k])]

\* String.prototype.split(','): the tokens between the commas
RECURSIVE Split(_, _)
Split(s, cur) ==
  IF s = <<>> THEN <<cur>>
  ELSE IF Head(s) = "," THEN <<cur>> \o Split(Tail(s), <<>>)
  ELSE Split(Tail(s), Append(cur, Head(s)))

\* the elements of seq that satisfy Keep, in order
RECURSIVE FilterIndices(_, _)
FilterIndices(ns, count) ==
  IF ns = <<>> THEN <<>>
  ELSE IF ValidIndex(Head(ns), count)
       THEN <<Head(ns)>> \o FilterIndices(Tail(ns), count)
       ELSE FilterIndices(Tail(ns), count)

\* handleMultiSelectPrompt: the values selected by a line
MultiSelectValues(prompt, line) ==
  LET tokens == Split(line, <<>>)
      ns == [k \in 1..Len(tokens) |-> ParseInt(Trim(tokens[k]))]
      kept == FilterIndices(ns, Len(prompt.choices.list))
  IN List([k \in 1..Len(kept) |-> prompt.choices.list[kept[k].int].value])

\* handleSelectPrompt: prompt.choices[index].value, for index = n - 1
SelectValue(prompt, n) == prompt.choices.list[n.int].value

\* Variant: an empty line resolves to the configured default.
ConfirmValueOrDefault(prompt, line) ==
  IF line = <<>> /\ prompt.default # Undefined THEN prompt.default
  ELSE Bool(ToLowerCase(line) \in
              { <<"y">>, <<"y", "e", "s">>, <<"t", "r", "u", "e">>, <<"1">> })

\* handleConfirmPrompt: ['y', 'yes', 'true', '1'].includes(answer.toLowerCase());
\* prompt.default is read and not used
ConfirmValue(prompt, line) ==
  Bool(ToLowerCase(line) \in
         { <<"y">>, <<"y", "e", "s">>, <<"t", "r", "u", "e">>, <<"1">> })

\* handleInputPrompt: if (!value && prompt.default) value = prompt.default
InputValue(prompt, line) ==
  IF line = <<>> /\ Truthy(prompt.default) THEN prompt.default ELSE Str(line)

\* Variant: command-line seeds are not copied into the answers.
SeedAnswersNone(args) == [n \in AnswerNames |-> NoKey]

\* collectAnswers: the answers seeded from the project-name argument and the
\* --template option (each only when truthy)
SeedAnswers(args) ==
  [n \in AnswerNames |->
     CASE n = "projectName" /\ Truthy(args.projectName) -> args.projectName
       [] n = "template" /\ Truthy(args.template) -> args.template
       [] OTHER -> NoKey]

\* Variant: every prompt with a default stores it, set or not.
RECURSIVE FillDefaultsOverwrite(_, _, _)
FillDefaultsOverwrite(ps, ans, n) ==
  IF n = 0 THEN ans
  ELSE LET before == FillDefaultsOverwrite(ps, ans, n - 1) IN
       IF ps[n].default # Undefined
       THEN [before EXCEPT ![ps[n].name] = ps[n].default]
       ELSE before

\* fillDefaults: the result after the first n prompts of the loop
RECURSIVE FillDefaults(_, _, _)
FillDefaults(ps, ans, n) ==
  IF n = 0 THEN ans
  ELSE LET before == FillDefaults(ps, ans, n - 1) IN
       IF ~IsDefined(before[ps[n].name]) /\ ps[n].default # Undefined
       THEN [before EXCEPT ![ps[n].name] = ps[n].default]
       ELSE before

\* The prompts that store their default in fillDefaults.
RECURSIVE FillWriters(_, _, _, _)
FillWriters(ps, ans, w, n) ==
  IF n = 0 THEN w
  ELSE LET before == FillDefaults(ps, ans, n - 1)
           wb == FillWriters(ps, ans, w, n - 1) IN
       IF ~IsDefined(before[ps[n].name]) /\ ps[n].default # Undefined
       THEN [wb EXCEPT ![ps[n].name] = n]
       ELSE wb

\* The writer recorded for the keys of the seed: 0; -1: nobody.
SeedWriters(ans) == [n \in AnswerNames |-> IF ans[n] = NoKey THEN -1 ELSE 0]

PromptInit ==
  /\ prompts \in PromptLists
  /\ cargs \in [projectName : {Undefined, Str(<<"a", "p", "p">>)},
                template : {Undefined, Str(<<"v", "1">>)},
                yes : BOOLEAN, async : {FALSE}, sync : {FALSE}]
  /\ allowModeSelection \in BOOLEAN
  /\ ppc = "start"
  /\ pidx = 1
  /\ answers = [n \in AnswerNames |-> NoKey]
  /\ result = [n \in AnswerNames |-> NoKey]
  /\ asks = [i \in 1..Len(prompts) |-> 0]
  /\ modeAsks = 0
  /\ rejections = [i \in 1..Len(prompts) |-> 0]
  /\ hidden = [i \in 1..Len(prompts) |-> FALSE]
  /\ writer = [n \in AnswerNames |-> -1]
  /\ rlMode = "async"
  /\ lastLine = <<>>
  /\ raw = [i \in 1..Len(prompts) |-> NoKey]
  /\ transforms = [i \in 1..Len(prompts) |-> 0]
  /\ checked = NoKey
  /\ perror = NoError

\* The running prompt is reached: it is neither hidden nor answered.
Reached(t) ==
  /\ ppc = "loop" /\ pidx <= Len(prompts)
  /\ ~SkipByWhen(prompts[pidx], answers)
  /\ ~AlreadyAnswered(prompts[pidx], answers)
  /\ prompts[pidx].type = t

\* History: whether `when` is false of the answers at the prompt's turn.
Visit == hidden' = [hidden EXCEPT ![pidx] = ~EvalWhen(prompts[pidx], answers)]

\* answers[prompt.name] = prompt.transform ? prompt.transform(answer) : answer
Store(value) ==
  /\ answers' = [answers EXCEPT ![prompts[pidx].name] = Transform(prompts[pidx], value)]
  /\ writer' = [writer EXCEPT ![prompts[pidx].name] = pidx]
  /\ raw' = [raw EXCEPT ![pidx] = value]
  /\ transforms' = [transforms EXCEPT ![pidx] = @ + TransformCalls(prompts[pidx])]
  /\ pidx' = pidx + 1

\* An exception nothing in collectAnswers catches: the call rejects with it.
Fail(err) == ppc' = "failed" /\ perror' = err

\* A rejected line: the error is shown and the loop asks again.
Retry ==
  /\ rejections[pidx] < MaxRetries
  /\ rejections' = [rejections EXCEPT ![pidx] = @ + 1]
  /\ UNCHANGED <<answers, writer, pidx, raw, transforms>>

\* collectAnswers with --yes: return this.fillDefaults(answers)
CollectYes ==
  /\ ppc = "start" /\ cargs.yes
  /\ LET seed == SeedAnswers(cargs) IN
       /\ answers' = seed
       /\ result' = FillDefaults(prompts, seed, Len(prompts))
       /\ writer' = FillWriters(prompts, seed, SeedWriters(seed), Len(prompts))
       /\ hidden' = [i \in 1..Len(prompts) |->
                       ~EvalWhen(prompts[i], FillDefaults(prompts, seed, i - 1))]
  /\ ppc' = "done"
  /\ UNCHANGED <<prompts, cargs, allowModeSelection, lastLine, pidx, asks, modeAsks,
                 rejections, rlMode>>
  /\ UNCHANGED <<raw, transforms>>
  /\ UNCHANGED checked
  /\ UNCHANGED <<perror, console>>
  /\ UNCHANGED rlVars
  /\ UNCHANGED notPrompt

\* collectAnswers without --yes: the seeds, then the mode question or the loop
CollectBegin ==
  /\ ppc = "start" /\ ~cargs.yes
  /\ answers' = SeedAnswers(cargs)
  /\ writer' = SeedWriters(SeedAnswers(cargs))
  /\ ppc' = IF allowModeSelection /\ ~cargs.async /\ ~cargs.sync THEN "mode" ELSE "loop"
  /\ UNCHANGED <<prompts, cargs, allowModeSelection, lastLine, pidx, result, asks, modeAsks,
                 rejections, hidden, rlMode>>
  /\ UNCHANGED <<raw, transforms>>
  /\ UNCHANGED checked
  /\ UNCHANGED <<perror, console>>
  /\ UNCHANGED rlVars
  /\ UNCHANGED notPrompt

\* askForReadlineMode: choice.trim() === '2' ? 'sync' : 'async'
AskForReadlineMode(line) ==
  /\ ppc = "mode"
  /\ LET menu == Styled("showInfo", <<"Choose readline implementation:">>) IN
       IF Throws(menu)
       THEN /\ Fail(menu.thrown)
            /\ UNCHANGED <<modeAsks, rlMode, lastLine, console>>
            /\ UNCHANGED rlVars
       ELSE /\ console' = Append(console, menu.output)
            /\ modeAsks' = modeAsks + 1
            /\ rlMode' = IF Trim(line) = <<"2">> THEN "sync" ELSE "async"
            /\ mode' = rlMode'
            /\ interfaces' =
                 IF (IF mode = "async" THEN asyncInterface ELSE syncInterface) = 0
                 THEN Append(CloseReferenced(interfaces), [kind |-> mode, open |-> FALSE])
                 ELSE CloseReferenced(interfaces)
            /\ asyncInterface' = 0 /\ syncInterface' = 0
            /\ pending' = 0
            /\ rlCall' = [op |-> "setMode", before |-> "question"]
            /\ ppc' = "loop"
            /\ lastLine' = line
            /\ UNCHANGED perror
  /\ UNCHANGED <<prompts, cargs, allowModeSelection, pidx, answers, result, asks,
                 rejections, hidden, writer>>
  /\ UNCHANGED <<raw, transforms>>
  /\ UNCHANGED checked
  /\ UNCHANGED notPrompt

\* the loop: if (prompt.when && !prompt.when(answers)) continue
PromptSkipWhen ==
  /\ ppc = "loop" /\ pidx <= Len(prompts)
  /\ SkipByWhen(prompts[pidx], answers)
  /\ Visit
  /\ pidx' = pidx + 1
  /\ UNCHANGED <<prompts, cargs, allowModeSelection, lastLine, ppc, answers, result, asks,
                 modeAsks, rejections, writer, rlMode>>
  /\ UNCHANGED <<raw, transforms>>
  /\ UNCHANGED checked
  /\ UNCHANGED <<perror, console>>
  /\ UNCHANGED rlVars
  /\ UNCHANGED notPrompt

\* the loop: if (answers[prompt.name] !== undefined) continue
PromptSkipAnswered ==
  /\ ppc = "loop" /\ pidx <= Len(prompts)
  /\ ~SkipByWhen(prompts[pidx], answers)
  /\ AlreadyAnswered(prompts[pidx], answers)
  /\ Visit
  /\ pidx' = pidx + 1
  /\ UNCHANGED <<prompts, cargs, allowModeSelection, lastLine, ppc, answers, result, asks,
                 modeAsks, rejections, writer, rlMode>>
  /\ UNCHANGED <<raw, transforms>>
  /\ UNCHANGED checked
  /\ UNCHANGED <<perror, console>>
  /\ UNCHANGED rlVars
  /\ UNCHANGED notPrompt

\* handleInputPrompt: one round of the loop, reading `line`
HandleInputPrompt(line) ==
  /\ Reached("input")
  /\ Visit
  /\ asks' = [asks EXCEPT ![pidx] = @ + 1]
  /\ LET value == InputValue(prompts[pidx], line)
         errorLine == Styled("showError", <<"Invalid input">>) IN
       /\ ~ValidateThrows(prompts[pidx], value)
       /\ checked' = IF prompts[pidx].validate # "none" THEN value ELSE checked
       /\ IF InputAccepted(prompts[pidx], value)
          THEN Store(value) /\ UNCHANGED <<rejections, ppc, perror, console>>
          ELSE IF Throws(errorLine)
          THEN /\ Fail(errorLine.thrown)
               /\ UNCHANGED <<answers, writer, pidx, raw, transforms, rejections, console>>
          ELSE /\ Retry
               /\ console' = Append(console, errorLine.output)
               /\ UNCHANGED <<ppc, perror>>
  /\ lastLine' = line
  /\ ReadLine
  /\ UNCHANGED <<prompts, cargs, allowModeSelection, result, modeAsks, rlMode>>
  /\ UNCHANGED notPrompt

\* handleInputPrompt: the rule throws while checking the value read from
\* `line`; nothing catches it and collectAnswers rejects
PromptValidateThrows(line) ==
  /\ Reached("input")
  /\ ValidateThrows(prompts[pidx], InputValue(prompts[pidx], line))
  /\ Visit
  /\ asks' = [asks EXCEPT ![pidx] = @ + 1]
  /\ lastLine' = line
  /\ ppc' = "failed"
  /\ UNCHANGED <<prompts, cargs, allowModeSelection, pidx, answers, result,
                 modeAsks, rejections, writer, rlMode>>
  /\ UNCHANGED <<raw, transforms>>
  /\ checked' = InputValue(prompts[pidx], line)
  /\ perror' = [thrownBy |-> "validate"]
  /\ UNCHANGED console
  /\ ReadLine
  /\ UNCHANGED notPrompt

\* processPrompt: default: throw new Error(`Unsupported prompt type: ...`)
PromptUnsupported ==
  /\ ppc = "loop" /\ pidx <= Len(prompts)
  /\ ~SkipByWhen(prompts[pidx], answers)
  /\ ~AlreadyAnswered(prompts[pidx], answers)
  /\ prompts[pidx].type \notin PromptTypes
  /\ Visit
  /\ ppc' = "failed"
  /\ UNCHANGED <<prompts, cargs, allowModeSelection, lastLine, pidx, answers,
                 result, asks, modeAsks, rejections, writer, rlMode>>
  /\ UNCHANGED <<raw, transforms>>
  /\ UNCHANGED checked
  /\ perror' = [message |-> "Unsupported prompt type"]
  /\ UNCHANGED console
  /\ UNCHANGED rlVars
  /\ UNCHANGED notPrompt

\* Variant: a prompt without choices is passed over and the loop goes on.
PromptMissingChoicesSkipped ==
  /\ \/ Reached("select")
     \/ Reached("multiselect")
  /\ prompts[pidx].choices = NoChoices
  /\ Visit
  /\ pidx' = pidx + 1
  /\ UNCHANGED <<prompts, cargs, allowModeSelection, lastLine, ppc, answers, result,
                 asks, modeAsks, rejections, writer, rlMode>>
  /\ UNCHANGED <<raw, transforms>>
  /\ UNCHANGED checked
  /\ UNCHANGED <<perror, console>>
  /\ UNCHANGED rlVars
  /\ UNCHANGED notPrompt

\* handleSelectPrompt / handleMultiSelectPrompt: if (!prompt.choices) throw
PromptMissingChoices ==
  /\ \/ Reached("select")
     \/ Reached("multiselect")
  /\ prompts[pidx].choices = NoChoices
  /\ Visit
  /\ ppc' = "failed"
  /\ UNCHANGED <<prompts, cargs, allowModeSelection, lastLine, pidx, answers, result, asks,
                 modeAsks, rejections, writer, rlMode>>
  /\ UNCHANGED <<raw, transforms>>
  /\ UNCHANGED checked
  /\ perror' = [message |-> IF prompts[pidx].type = "select"
                              THEN "Select prompt requires choices"
                              ELSE "MultiSelect prompt requires choices"]
  /\ UNCHANGED console
  /\ UNCHANGED rlVars
  /\ UNCHANGED notPrompt

\* handleSelectPrompt: one round of the loop, reading `line`
HandleSelectPrompt(line) ==
  /\ Reached("select")
  /\ prompts[pidx].choices # NoChoices
  /\ Visit
  /\ LET n == ParseInt(line)
         choices == prompts[pidx].choices.list
         menu == Styled("showInfo", <<"message">>)
         errorLine == Styled("showError", <<"Invalid selection. Please try again.">>)
         listed == IF asks[pidx] = 0 THEN Append(console, menu.output) ELSE console
     IN
       IF asks[pidx] = 0 /\ Throws(menu)
       THEN /\ Fail(menu.thrown)
            /\ UNCHANGED <<asks, lastLine, answers, writer, pidx, raw, transforms,
                           rejections, console>>
            /\ UNCHANGED rlVars
       ELSE /\ asks' = [asks EXCEPT ![pidx] = @ + 1]
            /\ lastLine' = line
            /\ ReadLine
            /\ IF ValidIndex(n, Len(choices))
               THEN /\ Store(SelectValue(prompts[pidx], n))
                    /\ console' = listed
                    /\ UNCHANGED <<rejections, ppc, perror>>
               ELSE IF Throws(errorLine)
               THEN /\ Fail(errorLine.thrown)
                    /\ console' = listed
                    /\ UNCHANGED <<answers, writer, pidx, raw, transforms, rejections>>
               ELSE /\ Retry
                    /\ console' = Append(listed, errorLine.output)
                    /\ UNCHANGED <<ppc, perror>>
  /\ UNCHANGED <<prompts, cargs, allowModeSelection, result, modeAsks, rlMode>>
  /\ UNCHANGED checked
  /\ UNCHANGED notPrompt

\* handleConfirmPrompt: one line is read, the default is not used
HandleConfirmPrompt(line) ==
  /\ Reached("confirm")
  /\ Visit
  /\ asks' = [asks EXCEPT ![pidx] = @ + 1]
  /\ Store(ConfirmValue(prompts[pidx], line))
  /\ lastLine' = line
  /\ UNCHANGED <<prompts, cargs, allowModeSelection, ppc, result, modeAsks,
                 rejections, rlMode>>
  /\ UNCHANGED checked
  /\ UNCHANGED <<perror, console>>
  /\ ReadLine
  /\ UNCHANGED notPrompt

\* handleMultiSelectPrompt: one line is read
HandleMultiSelectPrompt(line) ==
  /\ Reached("multiselect")
  /\ prompts[pidx].choices # NoChoices
  /\ Visit
  /\ LET menu == Styled("showInfo", <<"message", " (comma-separated numbers)">>) IN
       IF Throws(menu)
       THEN /\ Fail(menu.thrown)
            /\ UNCHANGED <<asks, lastLine, answers, writer, pidx, raw, transforms, console>>
            /\ UNCHANGED rlVars
       ELSE /\ console' = Append(console, menu.output)
            /\ ReadLine
            /\ asks' = [asks EXCEPT ![pidx] = @ + 1]
            /\ Store(MultiSelectValues(prompts[pidx], line))
            /\ lastLine' = line
            /\ UNCHANGED <<ppc, perror>>
  /\ UNCHANGED <<prompts, cargs, allowModeSelection, result, modeAsks,
                 rejections, rlMode>>
  /\ UNCHANGED checked
  /\ UNCHANGED notPrompt

\* the loop has ended: return answers
CollectReturn ==
  /\ ppc = "loop" /\ pidx > Len(prompts)
  /\ result' = answers
  /\ ppc' = "done"
  /\ UNCHANGED <<prompts, cargs, allowModeSelection, lastLine, pidx, answers, asks, modeAsks,
                 rejections, hidden, writer, rlMode>>
  /\ UNCHANGED <<raw, transforms>>
  /\ UNCHANGED checked
  /\ UNCHANGED <<perror, console>>
  /\ UNCHANGED rlVars
  /\ UNCHANGED notPrompt

collectAnswers ==
  \/ CollectYes
  \/ CollectBegin
  \/ \E line \in Lines : AskForReadlineMode(line)
  \/ PromptSkipWhen
  \/ PromptSkipAnswered
  \/ \E line \in Lines : HandleInputPrompt(line)
  \/ \E line \in Lines : PromptValidateThrows(line)
  \/ PromptUnsupported
  \/ PromptMissingChoices
  \/ \E line \in Lines : HandleSelectPrompt(line)
  \/ \E line \in Lines : HandleConfirmPrompt(line)
  \/ \E line \in Lines : HandleMultiSelectPrompt(line)
  \/ CollectReturn

PromptIdle ==
  /\ prompts = <<>>
  /\ cargs = [projectName |-> Undefined, template |-> Undefined, yes |-> FALSE,
              async |-> FALSE, sync |-> FALSE]
  /\ allowModeSelection = FALSE
  /\ ppc = "idle" /\ pidx = 1
  /\ answers = [n \in AnswerNames |-> NoKey]
  /\ result = [n \in AnswerNames |-> NoKey]
  /\ asks = <<>> /\ modeAsks = 0 /\ rejections = <<>> /\ hidden = <<>>
  /\ writer = [n \in AnswerNames |-> -1]
  /\ rlMode = "async"
  /\ lastLine = <<>>
  /\ raw = <<>> /\ transforms = <<>> /\ checked = NoKey /\ perror = NoError

(***************************************************************************)
(* PluginManager.install and PluginManager.uninstall.  A plugin            *)
(* definition is a record [name, version] of JavaScript values; the        *)
(* registry `plugins` holds the definitions in Map insertion order.        *)
(***************************************************************************)
\* typeof v === 'string'
IsString(v) == "str" \in DOMAIN v

Letters ==
  { "a", "b", "c", "d", "e", "f", "g", "h", "i", "j", "k", "l", "m",
    "n", "o", "p", "q", "r", "s", "t", "u", "v", "w", "x", "y", "z",
    "A", "B", "C", "D", "E", "F", "G", "H", "I", "J", "K", "L", "M",
    "N", "O", "P", "Q", "R", "S", "T", "U", "V", "W", "X", "Y", "Z" }

\* the character class [0-9A-Za-z-] of semverRegex
IdChars == Digits \cup Letters \cup {"-"}

\* The position of the first c in s, 0 when there is none.
IndexOf(s, c) ==
  IF \E k \in 1..Len(s) : s[k] = c
  THEN CHOOSE k \in 1..Len(s) : s[k] = c /\ \A j \in 1..(k - 1) : s[j] # c
  ELSE 0

\* The pieces of s between the occurrences of c.
RECURSIVE SplitOn(_, _, _)
SplitOn(s, c, cur) ==
  IF s = <<>> THEN <<cur>>
  ELSE IF Head(s) = c THEN <<cur>> \o SplitOn(Tail(s), c, <<>>)
  ELSE SplitOn(Tail(s), c, Append(cur, Head(s)))

\* [0-9A-Za-z-]+(?:\.[0-9A-Za-z-]+)* matches all of s
Identifiers(s) ==
  LET parts == SplitOn(s, ".", <<>>) IN
  \A k \in 1..Len(parts) :
    parts[k] # <<>> /\ \A j \in 1..Len(parts[k]) : parts[k][j] \in IdChars

\* (\d+)\.(\d+)\.(\d+) matches all of s
ThreeNumbers(s) ==
  LET parts == SplitOn(s, ".", <<>>) IN
  /\ Len(parts) = 3
  /\ \A k \in 1..3 :
       parts[k] # <<>> /\ \A j \in 1..Len(parts[k]) : parts[k][j] \in Digits

\* semverRegex.test(v).  No character class of the expression holds "+" and
\* only the identifiers hold "-", so the first "+" starts the build metadata
\* and the first "-" before it starts the prerelease.
SemverTest(v) ==
  LET plus == IndexOf(v, "+")
      main == IF plus = 0 THEN v ELSE SubSeq(v, 1, plus - 1)
      build == IF plus = 0 THEN <<>> ELSE SubSeq(v, plus + 1, Len(v))
      dash == IndexOf(main, "-")
      core == IF dash = 0 THEN main ELSE SubSeq(main, 1, dash - 1)
      pre == IF dash = 0 THEN <<>> ELSE SubSeq(main, dash + 1, Len(main))
  IN /\ ThreeNumbers(core)
     /\ dash # 0 => Identifiers(pre)
     /\ plus # 0 => Identifiers(build)

\* The names and versions given to install and uninstall.
InstallNames ==
  { Str(<<"p", "1">>), Str(<<"p", "2">>), Str(<<>>), Undefined, Num(7) }

UninstallNames == { Str(<<"p", "1">>), Str(<<"p", "2">>), Str(<<"p", "3">>) }

Versions ==
  { Str(<<"1", ".", "0">>),
    Str(<<"v", "1", ".", "0", ".", "0">>),
    Str(<<"1", ".", "0", ".", "0", ".", "0">>),
    Str(<<"1", ".", "0", ".", "0">>),
    Str(<<"1", ".", "0", ".", "0", "-", "b", "e", "t", "a", ".", "1">>),
    Str(<<"1", ".", "0", ".", "0", "+", "b", "u", "i", "l", "d", ".", "5">>),
    Str(<<"0", "1", ".", "0", ".", "0">>),
    Str(<<>>), Undefined, Num(1) }

\* The definitions given to install: a name, a version and, in `hook`, the
\* event the definition has a handler for.
PluginDefs ==
  [name : InstallNames, version : Versions, hook : {"none", "beforeGenerate"}]

NoResult == [none |-> TRUE]

NoNotice == [none |-> TRUE]

\* context of the errors of install and uninstall
PluginContext(op, name) == [operation |-> op, pluginName |-> name]

\* ErrorFactory.plugin(message, context)
ErrorFactoryPlugin(msg, ctx) ==
  [isError |-> TRUE, code |-> "PLUGIN_ERROR", message |-> msg, context |-> ctx]

\* this.plugins in a call of install, uninstall, getPlugin or listPlugins:
\* the entries of the Map in insertion order, each a key and a value.
\* this.plugins.has(name)
Has(reg, name) == \E k \in 1..Len(reg) : reg[k].key = name

\* this.plugins.get(name)
Get(reg, name) ==
  IF Has(reg, name) THEN reg[CHOOSE k \in 1..Len(reg) : reg[k].key = name].value
  ELSE Undefined

\* this.plugins.set(name, config): a new key goes last, a present key keeps
\* its place and takes the new value
MapSet(reg, name, config) ==
  IF Has(reg, name)
  THEN [k \in 1..Len(reg) |->
          IF reg[k].key = name THEN [key |-> name, value |-> config] ELSE reg[k]]
  ELSE Append(reg, [key |-> name, value |-> config])

\* Variant: every entry is removed.
MapClear(reg, name) == <<>>

\* this.plugins.delete(name)
MapDelete(reg, name) == SelectSeq(reg, LAMBDA e : e.key # name)

\* Array.from(this.plugins.values())
Values(reg) == [k \in 1..Len(reg) |-> reg[k].value]

\* Variant: the version is only required to be a string.
ValidatePluginConfigAnyVersion(config) ==
  IF ~Truthy(config.name) \/ ~IsString(config.name)
  THEN ErrorFactoryPlugin(<<"Plugin name is required and must be a string">>,
                          [none |-> TRUE])
  ELSE IF ~Truthy(config.version) \/ ~IsString(config.version)
  THEN ErrorFactoryPlugin(<<"Plugin version is required and must be a string">>,
                          [none |-> TRUE])
  ELSE NoError

\* validatePluginConfig: the error it throws, NoError when it returns
ValidatePluginConfig(config) ==
  IF ~Truthy(config.name) \/ ~IsString(config.name)
  THEN ErrorFactoryPlugin(<<"Plugin name is required and must be a string">>,
                          [none |-> TRUE])
  ELSE IF ~Truthy(config.version) \/ ~IsString(config.version)
  THEN ErrorFactoryPlugin(<<"Plugin version is required and must be a string">>,
                          [none |-> TRUE])
  ELSE IF ~SemverTest(config.version.str)
  THEN ErrorFactoryPlugin(<<"Plugin version is not a valid semantic version">>,
                          [none |-> TRUE])
  ELSE NoError

\* Variant: the registry is not asked whether the name is taken.
InstallThrowsUnchecked(reg, config) == ValidatePluginConfig(config)

\* The try block of install before this.plugins.set: the error thrown
InstallThrows(reg, config) ==
  IF Has(reg, config.name)
  THEN ErrorFactoryPlugin(<<"Plugin is already installed">>,
                          PluginContext("install", config.name))
  ELSE ValidatePluginConfig(config)

\* The catch block of install.
InstallCatch(config, err) ==
  IF err.isError
  THEN ErrorFactoryPlugin(<<"Failed to install plugin: ">> \o err.message,
                          PluginContext("install", config.name))
  ELSE err

\* The catch block of uninstall.
UninstallCatch(name, err) ==
  IF err.isError
  THEN ErrorFactoryPlugin(<<"Failed to uninstall plugin: ">> \o err.message,
                          PluginContext("uninstall", name))
  ELSE err

\* The state after `new PluginManager()`, before any call.
RegInit ==
  /\ regCall = [op |-> "none"]
  /\ regBefore = <<>>
  /\ regError = NoError
  /\ regNotice = NoNotice
  /\ uninstalled = {}
  /\ regResult = NoResult

\* install(config)
Install(config) ==
  /\ hpc = "idle"
  /\ regCall' = [op |-> "install", config |-> config]
  /\ regBefore' = plugins
  /\ LET thrown == InstallThrows(plugins, config) IN
       IF thrown = NoError
       THEN /\ plugins' = MapSet(plugins, config.name, config)
            /\ regNotice' = [installed |-> config.name, version |-> config.version]
            /\ regError' = NoError
       ELSE /\ plugins' = plugins
            /\ regNotice' = NoNotice
            /\ regError' = InstallCatch(config, thrown)
  /\ regResult' = NoResult
  /\ UNCHANGED uninstalled
  /\ UNCHANGED notRegistry

\* uninstall(name)
Uninstall(name) ==
  /\ hpc = "idle"
  /\ regCall' = [op |-> "uninstall", name |-> name]
  /\ regBefore' = plugins
  /\ IF Has(plugins, name)
     THEN /\ plugins' = MapDelete(plugins, name)
          /\ regNotice' = [uninstalled |-> name]
          /\ regError' = NoError
          /\ uninstalled' = uninstalled \cup {name}
     ELSE /\ plugins' = plugins
          /\ regNotice' = NoNotice
          /\ regError' =
               UninstallCatch(name,
                 ErrorFactoryPlugin(<<"Plugin is not installed">>,
                                    PluginContext("uninstall", name)))
          /\ UNCHANGED uninstalled
  /\ regResult' = NoResult
  /\ UNCHANGED notRegistry

\* getPlugin(name): return this.plugins.get(name)
GetPlugin(name) ==
  /\ hpc = "idle"
  /\ regCall' = [op |-> "getPlugin", name |-> name]
  /\ regBefore' = plugins
  /\ regResult' = [plugin |-> Get(plugins, name)]
  /\ regError' = NoError /\ regNotice' = NoNotice
  /\ UNCHANGED <<plugins, uninstalled>>
  /\ UNCHANGED notRegistry

\* listPlugins(): return Array.from(this.plugins.values())
ListPlugins ==
  /\ hpc = "idle"
  /\ regCall' = [op |-> "listPlugins"]
  /\ regBefore' = plugins
  /\ regResult' = [list |-> Values(plugins)]
  /\ regError' = NoError /\ regNotice' = NoNotice
  /\ UNCHANGED <<plugins, uninstalled>>
  /\ UNCHANGED notRegistry

\* executeHook(event) on the registry, as one call: the loop reads
\* this.plugins.values() and calls the handler of each definition that has
\* one for the event (the handlers return); `handled` are the names of the
\* definitions whose handler ran, in order
ExecuteHook(event) ==
  /\ hpc = "idle"
  /\ regCall' = [op |-> "executeHook", event |-> event]
  /\ regBefore' = plugins
  /\ regResult' =
       [handled |-> [k \in 1..Len(SelectSeq(Values(plugins), LAMBDA c : c.hook = event)) |->
                       SelectSeq(Values(plugins), LAMBDA c : c.hook = event)[k].name]]
  /\ regError' = NoError /\ regNotice' = NoNotice
  /\ UNCHANGED <<plugins, uninstalled>>
  /\ UNCHANGED notRegistry

\* The registry between calls: nothing changes it.
RegIdle == RegInit

(***************************************************************************)
(* CLI driver: createCLI and CLIBuilder.run.                               *)
(***************************************************************************)
\* What a plugin of config.plugins declares under hooks.
CliPlugins ==
  { <<>>,
    << [name |-> "p1", beforeGenerate |-> TRUE, afterGenerate |-> TRUE] >>,
    << [name |-> "p1", beforeGenerate |-> TRUE, afterGenerate |-> FALSE],
       [name |-> "p2", beforeGenerate |-> FALSE, afterGenerate |-> TRUE] >> }

\* The TemplateConfig objects a CLI configuration lists under one name.
CliTemplateDefs ==
  [files : { fl \in FileLists : Len(fl) <= 1 },
   dependencies : {NoDeps, DeclaredDeps, EmptyDeps, RuntimeDeps, ReadmeDeps},
   scripts : {Undef, "scripts"},
   postInstall : BOOLEAN]

\* config.templates: no template, or one template named TemplateName
CliTemplates ==
  { <<>> } \cup { << [name |-> TemplateName, def |-> d] >> : d \in CliTemplateDefs }

\* The answers collectAnswers can resolve with, as far as run reads them.
RunAnswers ==
  [projectName : {Undef, "", ProjectName},
   template : {Undef, "", TemplateName, "other"},
   installDeps : {Undef, "true", "false"}]

NoAnswers == [none |-> TRUE]
NoExit == [none |-> TRUE]

\* process.exit(code)
Exit(code) == [code |-> code]

\* !answers.projectName, !answers.template
Falsy(v) == v \in {Undef, ""}

\* ValidationManager.validateAnswers(answers)
ValidateAnswers(ans) ==
  IF Falsy(ans.projectName)
  THEN [valid |-> FALSE, message |-> <<"Project name is required">>]
  ELSE IF Falsy(ans.template)
  THEN [valid |-> FALSE, message |-> <<"Template selection is required">>]
  ELSE [valid |-> TRUE, message |-> <<>>]

\* Variant: the first template is taken whatever its name.
FindTemplateAny(templates, name) == IF Len(templates) > 0 THEN 1 ELSE 0

\* this.config.templates.find(t => t.name === answers.template): the index
\* of the first template of that name, 0 when there is none.
FindTemplate(templates, name) ==
  IF \E i \in 1..Len(templates) : templates[i].name = name
  THEN CHOOSE i \in 1..Len(templates) :
         /\ templates[i].name = name
         /\ \A j \in 1..(i - 1) : templates[j].name # name
  ELSE 0

\* The Error collectAnswers rejects with, as the catch block of run prints it.
CollectErrors ==
  { [message |-> "Select prompt requires choices"],
    [message |-> "Unsupported prompt type"],
    [error |-> "length", length |-> 7] }

\* determineReadlineMode(options)
DetermineReadlineMode(options, config) ==
  IF options.async THEN "async"
  ELSE IF options.sync THEN "sync"
  ELSE IF "readlineMode" \in DOMAIN config THEN config.readlineMode
  ELSE "async"

\* What collectAnswers leaves of the ReadlineManager: no interface when no
\* question was asked (--yes, every prompt seeded or skipped), otherwise the
\* interface of the mode, open.
HandedOver(m, asked) ==
  /\ mode = m
  /\ interfaces = IF asked THEN << [kind |-> m, open |-> TRUE] >> ELSE <<>>
  /\ asyncInterface = (IF asked /\ m = "async" THEN 1 ELSE 0)
  /\ syncInterface = (IF asked /\ m = "sync" THEN 1 ELSE 0)
  /\ pending = 0
  /\ rlCall = [op |-> IF asked THEN "question" ELSE "setMode", before |-> "setMode"]

\* run at its entry: run(projectName, options) of a constructed CLIBuilder
RunEntryInit ==
  /\ cli \in [templates : CliTemplates, plugins : CliPlugins]
  /\ rpc = "start"
  /\ ranswers = NoAnswers
  /\ caught = NoError /\ rejection = NoError
  /\ exitCode = NoExit
  /\ hookEvents = <<>>

\* run where `await this.collectAnswers(projectName, options)` has settled:
\* resolved with answers, or rejected with an Error that the catch block
\* receives
RunInit ==
  /\ cli \in [templates : CliTemplates, plugins : CliPlugins]
  /\ \/ /\ rpc = "validate"
        /\ ranswers \in RunAnswers
        /\ caught = NoError
     \/ /\ rpc = "catch"
        /\ ranswers = NoAnswers
        /\ caught \in CollectErrors
  /\ \E m \in ReadlineModes, asked \in BOOLEAN : HandedOver(m, asked)
  /\ rejection = NoError
  /\ exitCode = NoExit
  /\ hookEvents = <<>>

\* this.uiManager.showWelcome(this.config.name): clearConsole(), then
\* console.log(bold(hex(this.theme.primary, logo))); when it returns,
\* setMode(determineReadlineMode(options)) and collectAnswers is awaited
RunWelcome ==
  /\ rpc = "start"
  /\ LET logo == Hex(theme.primary, <<"logo">>) IN
       IF Throws(logo)
       THEN /\ caught' = logo.thrown
            /\ rpc' = "catch"
            /\ UNCHANGED <<console, rlVars>>
       ELSE /\ console' = <<logo.output>>
            /\ mode' = DetermineReadlineMode(cargs, cli)
            /\ interfaces' = CloseReferenced(interfaces)
            /\ asyncInterface' = 0 /\ syncInterface' = 0
            /\ rlCall' = [op |-> "setMode", before |-> rlCall.op]
            /\ rpc' = "collect"
            /\ UNCHANGED <<caught, pending>>
  /\ UNCHANGED <<cli, ranswers, rejection, exitCode, hookEvents>>
  /\ UNCHANGED genVars
  /\ UNCHANGED notRun

\* if (!validation.valid) { showError(validation.message); process.exit(1) }
\* inside the try block: what showError throws goes to the catch block
RunValidateFail ==
  /\ rpc = "validate"
  /\ ~ValidateAnswers(ranswers).valid
  /\ LET line == Styled("showError", ValidateAnswers(ranswers).message) IN
       IF Throws(line)
       THEN /\ caught' = line.thrown
            /\ rpc' = "catch"
            /\ UNCHANGED <<console, exitCode>>
       ELSE /\ console' = Append(console, line.output)
            /\ exitCode' = Exit(1)
            /\ rpc' = "exited"
            /\ UNCHANGED caught
  /\ UNCHANGED <<cli, ranswers, rejection, hookEvents>>
  /\ UNCHANGED genVars
  /\ UNCHANGED rlVars
  /\ UNCHANGED notRun

\* validation.valid: run goes on to generateProject
RunValidateOk ==
  /\ rpc = "validate"
  /\ ValidateAnswers(ranswers).valid
  /\ rpc' = "validated"
  /\ UNCHANGED <<cli, ranswers, caught, rejection, exitCode, hookEvents, console>>
  /\ UNCHANGED genVars
  /\ UNCHANGED rlVars
  /\ UNCHANGED notRun

\* generateProject: no template of that name; the Error reaches the catch
\* block of run
RunTemplateNotFound ==
  /\ rpc = "validated"
  /\ FindTemplate(cli.templates, ranswers.template) = 0
  /\ caught' = [message |-> <<"Template '", ranswers.template, "' not found">>]
  /\ rpc' = "catch"
  /\ UNCHANGED <<cli, ranswers, rejection, exitCode, hookEvents, console>>
  /\ UNCHANGED genVars
  /\ UNCHANGED rlVars
  /\ UNCHANGED notRun

\* generateProject: projectGenerator.generate(template, config) is called
RunGenerate ==
  /\ rpc = "validated"
  /\ FindTemplate(cli.templates, ranswers.template) # 0
  /\ gpc = "idle"
  /\ template' = cli.templates[FindTemplate(cli.templates, ranswers.template)].def
  /\ gconfig' = [projectName |-> ranswers.projectName,
                 template |-> ranswers.template,
                 installDeps |-> ranswers.installDeps]
  /\ gpc' = "ensureDir"
  /\ rpc' = "generate"
  /\ UNCHANGED <<fidx, dirExists, disk, glog, installState, postState,
                 failure, gerror, hinted, disk0, produced, installs>>
  /\ UNCHANGED <<cli, ranswers, caught, rejection, exitCode, hookEvents, console>>
  /\ UNCHANGED rlVars
  /\ UNCHANGED notRun

\* generate resolved: showSuccess('Project created successfully!'), then
\* showNextSteps(answers), which begins with showInfo('\nNext steps:'); what
\* either throws goes to the catch block
RunSuccess ==
  /\ rpc = "generate"
  /\ gpc = "resolved"
  /\ LET created == Styled("showSuccess", <<"Project created successfully!">>)
         steps == Styled("showInfo", <<"Next steps:">>)
     IN
       IF Throws(created)
       THEN /\ caught' = created.thrown
            /\ rpc' = "catch"
            /\ UNCHANGED console
       ELSE IF Throws(steps)
       THEN /\ console' = Append(console, created.output)
            /\ caught' = steps.thrown
            /\ rpc' = "catch"
       ELSE /\ console' = console \o <<created.output, steps.output>>
            /\ rpc' = "done"
            /\ UNCHANGED caught
  /\ UNCHANGED <<cli, ranswers, rejection, exitCode, hookEvents>>
  /\ UNCHANGED genVars
  /\ UNCHANGED rlVars
  /\ UNCHANGED notRun

\* generate rejected: the Error reaches the catch block of run
RunGenerateFailed ==
  /\ rpc = "generate"
  /\ gpc = "rejected"
  /\ caught' = gerror
  /\ rpc' = "catch"
  /\ UNCHANGED <<cli, ranswers, rejection, exitCode, hookEvents, console>>
  /\ UNCHANGED genVars
  /\ UNCHANGED rlVars
  /\ UNCHANGED notRun

\* catch (error) { showError(`An error occurred: ${error}`); process.exit(1) }
\* what showError throws here is caught by nothing: run rejects with it
RunCatch ==
  /\ rpc = "catch"
  /\ LET line == Styled("showError", <<"An error occurred: ", caught>>) IN
       IF Throws(line)
       THEN /\ rejection' = line.thrown
            /\ rpc' = "rejected"
            /\ UNCHANGED <<console, exitCode>>
       ELSE /\ console' = Append(console, line.output)
            /\ exitCode' = Exit(1)
            /\ rpc' = "exited"
            /\ UNCHANGED rejection
  /\ UNCHANGED <<cli, ranswers, caught, hookEvents>>
  /\ UNCHANGED genVars
  /\ UNCHANGED rlVars
  /\ UNCHANGED notRun

\* run from its entry
runEntry ==
  \/ RunWelcome
  \/ RunCatch

\* run from the settling of collectAnswers
run ==
  \/ RunValidateFail
  \/ RunValidateOk
  \/ RunTemplateNotFound
  \/ RunGenerate
  \/ RunSuccess
  \/ RunGenerateFailed
  \/ RunCatch

RunIdle ==
  /\ cli = [templates |-> <<>>, plugins |-> <<>>]
  /\ rpc = "idle" /\ ranswers = NoAnswers /\ caught = NoError /\ rejection = NoError
  /\ exitCode = NoExit /\ hookEvents = <<>>

\* The state of a component that is not running.
HookIdle ==
  /\ plugins = <<>> /\ hookName = "beforeGenerate" /\ hpc = "idle" /\ hidx = 1
  /\ promises = <<>> /\ hres = <<>> /\ pchain = <<>> /\ eres = <<>>
  /\ invoked = <<>> /\ onErrCalls = <<>> /\ onErrArgs = <<>>
  /\ warns = <<>> /\ errs = <<>> /\ payload = <<>> /\ received = <<>>

GenIdle ==
  /\ template = [files |-> <<>>, dependencies |-> NoDeps, scripts |-> Undef,
                 postInstall |-> FALSE]
  /\ gconfig = [projectName |-> ProjectName, template |-> TemplateName,
                installDeps |-> Undef]
  /\ gpc = "idle" /\ fidx = 1 /\ dirExists = FALSE
  /\ disk = EmptyDisk /\ disk0 = EmptyDisk /\ produced = {} /\ installs = <<>>
  /\ glog = <<>> /\ installState = "none" /\ postState = "none"
  /\ failure = NoError /\ gerror = NoError /\ hinted = FALSE

HookNext == executeHook \/ HookEnvironment

InitHook == HookInit /\ GenIdle /\ PromptIdle /\ RegIdle /\ RunIdle /\ UiIdle /\ RlIdle

SpecHook == InitHook /\ [][HookNext]_vars

GenNext == generate

InitGen == GenInit /\ HookIdle /\ PromptIdle /\ RegIdle /\ RunIdle /\ UiIdle /\ RlIdle

SpecGen == InitGen /\ [][GenNext]_vars

PromptNext == collectAnswers

InitPrompt ==
  /\ PromptInit /\ HookIdle /\ GenIdle /\ RegIdle /\ RunIdle /\ UiIdle
  /\ HandedOver(DetermineReadlineMode(cargs, cli), FALSE)

SpecPrompt == InitPrompt /\ [][PromptNext]_vars

RegistryNext ==
  \/ \E config \in PluginDefs : Install(config)
  \/ \E name \in UninstallNames : Uninstall(name)
  \/ \E name \in UninstallNames : GetPlugin(name)
  \/ ListPlugins
  \/ \E event \in HookNames : ExecuteHook(event)

InitRegistry == RegInit /\ HookIdle /\ GenIdle /\ PromptIdle /\ RunIdle /\ UiIdle /\ RlIdle

SpecRegistry == InitRegistry /\ [][RegistryNext]_vars

RunNext == run \/ generate

InitRun == RunInit /\ GenIdle /\ HookIdle /\ PromptIdle /\ RegIdle /\ UiIdle

SpecRun == InitRun /\ [][RunNext]_vars

RunEntryNext == runEntry

InitRunEntry == RunEntryInit /\ GenIdle /\ HookIdle /\ PromptIdle /\ RegIdle /\ UiInit /\ RlInit

SpecRunEntry == InitRunEntry /\ [][RunEntryNext]_vars

UiNext ==
  \/ \E message \in UiMessages : showSuccess(message)
  \/ \E message \in UiMessages : showError(message)
  \/ \E message \in UiMessages : showWarning(message)
  \/ \E message \in UiMessages : showInfo(message)

InitUi ==
  UiInit /\ HookIdle /\ GenIdle /\ PromptIdle /\ RegIdle /\ RunIdle /\ RlIdle

SpecUI == InitUi /\ [][UiNext]_vars

ReadlineNext ==
  \/ \E m \in ReadlineModes : SetMode(m)
  \/ Question
  \/ QuestionResolve
  \/ Cleanup

InitReadline ==
  RlInit /\ HookIdle /\ GenIdle /\ PromptIdle /\ RegIdle /\ RunIdle /\ UiIdle

SpecReadline == InitReadline /\ [][ReadlineNext]_vars

(***************************************************************************)
(* Properties of executeHook.                                              *)
(***************************************************************************)
\* The handler of plugin i for hookName has failed.
HandlerFailed(i) ==
  \/ plugins[i].hook = "throw" /\ invoked[i] > 0
  \/ hres[i] = "rejected"

\* C1: when the handler of one plugin fails (synchronous throw or rejected
\* promise), the handler of every other plugin that defines one for the event
\* has been invoked once the loop is over, and executeHook never rejects.
C1_FailureIsolation ==
  /\ hpc # "rejected"
  /\ hpc \in {"join", "done"} =>
       \A i, j \in 1..Len(plugins) :
         (i # j /\ HandlerFailed(i) /\ plugins[j].hook # "none") => invoked[j] = 1

C1_Witness ==
  /\ hpc = "done"
  /\ \E i, j \in 1..Len(plugins) :
       i < j /\ plugins[i].hook = "throw" /\ invoked[j] = 1

\* C2: executeHook has not returned while a promise returned by a handler of
\* the event, or by an onError handler invoked for a failed handler, is
\* still pending.
C2_ReturnsAfterAllSettled ==
  hpc = "done" =>
    \A i \in 1..Len(plugins) : hres[i] # "pending" /\ eres[i] # "pending"

C2_Witness ==
  /\ hpc = "done"
  /\ \E i, j \in 1..Len(plugins) :
       /\ hres[i] = "rejected" /\ Settled(eres[i])
       /\ plugins[j].hook = "throw" /\ Settled(eres[j])

(***************************************************************************)
(* Properties of generate.                                                 *)
(***************************************************************************)
\* The step that failed, by the value it threw.
FailedIn(tag) == failure # NoError /\ failure.message = <<tag>>

\* C3 (as claimed): a failed install command does not abort generate: the
\* manual-recovery hint is printed, postInstall is still invoked when it is
\* declared, and generate rejects only if postInstall does.
C3_InstallFailureNonFatal ==
  installState = "failed" =>
    /\ hinted
    /\ gpc = "rejected" => postState = "rejected"
    /\ (gpc \in {"resolved", "rejected"} /\ template.postInstall) => postState # "none"

\* C4 (as claimed): generate rejects with the very value postInstall
\* rejected with.
C4_PostInstallRejectionAsIs ==
  postState = "rejected" => gpc = "rejected" /\ gerror = failure

\* C4 (amended): a rejection of postInstall with an Error reaches the caller
\* wrapped in a new filesystem error with operation 'generate'; only a value
\* that is not an Error is passed on unchanged.
C4_PostInstallRejectionWrapped ==
  postState = "rejected" =>
    /\ gpc = "rejected"
    /\ FailedIn("postInstall")
    /\ IF failure.isError
       THEN /\ gerror.code = "FILESYSTEM_ERROR"
            /\ gerror.message = <<"Failed to generate project: ", "postInstall">>
            /\ gerror.context = Context("generate", ProjectName, TemplateName, Undef)
       ELSE gerror = failure

C4_Witness ==
  /\ postState = "rejected" /\ gpc = "rejected"
  /\ failure.isError /\ gerror.code = "FILESYSTEM_ERROR"

\* The position of a step in the order of generate.
Rank(step) ==
  CASE step[1] = "ensureDir" -> 1
    [] step[1] = "write" -> 2
    [] step[1] = "manifest" -> 3
    [] step[1] = "install" -> 4
    [] step[1] = "postInstall" -> 5

Logged(name) == \E k \in 1..Len(glog) : glog[k][1] = name

\* C5: the steps of generate happen in the order ensureDir, files (in
\* declaration order), manifest, install, postInstall; a step starts only
\* when the one before it is complete, and generate resolves only when
\* postInstall has settled.
C5_StepOrder ==
  /\ \A i, j \in 1..Len(glog) : i < j =>
       /\ Rank(glog[i]) < Rank(glog[j]) \/ (glog[i][1] = "write" /\ glog[j][1] = "write")
       /\ (glog[i][1] = "write" /\ glog[j][1] = "write") => glog[i][2] < glog[j][2]
  /\ glog # <<>> => glog[1] = <<"ensureDir">> /\ dirExists
  /\ Logged("manifest") => fidx > Len(template.files)
  /\ Logged("install") => Logged("manifest")
  /\ Logged("postInstall") => Logged("manifest") /\ installState # "pending"
  /\ gpc = "resolved" =>
       /\ Logged("manifest")
       /\ installState # "pending"
       /\ postState = IF template.postInstall THEN "resolved" ELSE "none"

C5_Witness ==
  /\ gpc = "resolved"
  /\ Len(template.files) = 2
  /\ glog = <<<<"ensureDir">>, <<"write", 1>>, <<"write", 2>>, <<"manifest">>,
              <<"install">>, <<"postInstall">>>>

\* C6 (as claimed): the caller of generate sees the context of the failing
\* sub-step.
C6_CallerSeesStepContext ==
  /\ (gpc = "rejected" /\ FailedIn("writeFile")) =>
       /\ gerror.code = "FILESYSTEM_ERROR"
       /\ gerror.context = Context("generateFiles", ProjectName, TemplateName, Undef)
  /\ (gpc = "rejected" /\ FailedIn("writeJson")) =>
       /\ gerror.code = "FILESYSTEM_ERROR"
       /\ gerror.context.operation = "generatePackageJson"
       /\ gerror.context.filePath = "package.json"

\* C6 (amended): the error of generateFiles or generatePackageJson is wrapped
\* once more by generate: the caller sees a filesystem error with context
\* {operation: 'generate', projectName, template} whose message embeds the
\* message of the sub-step's error.
C6_CallerSeesGenerateContext ==
  /\ (gpc = "rejected" /\ FailedIn("writeFile")) =>
       /\ gerror.code = "FILESYSTEM_ERROR"
       /\ gerror.context = Context("generate", ProjectName, TemplateName, Undef)
       /\ gerror.message =
            <<"Failed to generate project: ", "Failed to generate files: ", "writeFile">>
  /\ (gpc = "rejected" /\ FailedIn("writeJson")) =>
       /\ gerror.code = "FILESYSTEM_ERROR"
       /\ gerror.context = Context("generate", ProjectName, TemplateName, Undef)
       /\ gerror.message =
            <<"Failed to generate project: ", "Failed to generate package.json: ", "writeJson">>

C6_Witness ==
  /\ gpc = "rejected" /\ FailedIn("writeFile")
  /\ fidx = 2 /\ gerror.context.operation = "generate"

\* The disk after generateFiles has processed the first n FileSpecs.
RECURSIVE DiskAfter(_, _)
DiskAfter(files, n) ==
  IF n = 0 THEN disk0
  ELSE LET before == DiskAfter(files, n - 1) IN
       IF files[n].condition = "false" THEN before
       ELSE [before EXCEPT ![files[n].path] = Text(files[n].content)]

\* C7: when writing a template file fails, generate stops there: no later
\* FileSpec is written, no manifest, no install, no postInstall, and what
\* the earlier FileSpecs wrote is still on disk.
C7_AbortWithoutRollback ==
  (gpc = "rejected" /\ FailedIn("writeFile")) =>
    /\ \A k \in 1..Len(glog) : glog[k][1] = "write" => glog[k][2] < fidx
    /\ ~Logged("manifest") /\ ~Logged("install") /\ ~Logged("postInstall")
    /\ installState = "none" /\ postState = "none"
    /\ disk = DiskAfter(template.files, fidx - 1)

C7_Witness ==
  /\ gpc = "rejected" /\ FailedIn("writeFile")
  /\ fidx = 2 /\ Len(template.files) = 2
  /\ template.files[1].condition # "false"
  /\ disk[template.files[1].path] = Text(template.files[1].content)

(***************************************************************************)
(* Properties of collectAnswers.                                           *)
(***************************************************************************)
PromptIndices == 1..Len(prompts)

\* C8 (as claimed): in every run mode a prompt whose `when` is false of the
\* answers accumulated so far is never asked and its name is not a key of
\* the returned AnswerSet.
C8_HiddenNeverAKey ==
  ppc = "done" =>
    \A i \in PromptIndices :
      hidden[i] => asks[i] = 0 /\ result[prompts[i].name] = NoKey

\* C8 (amended): in interactive mode a prompt whose `when` is false at its
\* turn is not asked and stores nothing (its name is a key only when the
\* seed or another prompt of that name wrote it); with --yes nothing is
\* asked, `when` is not consulted and every prompt with a default has its
\* name set.
C8_HiddenSkipped ==
  /\ ~cargs.yes =>
       \A i \in PromptIndices :
         hidden[i] => asks[i] = 0 /\ writer[prompts[i].name] # i
  /\ (cargs.yes /\ ppc = "done") =>
       \A i \in PromptIndices :
         /\ asks[i] = 0
         /\ prompts[i].default # Undefined => IsDefined(result[prompts[i].name])
         /\ writer[prompts[i].name] = i => result[prompts[i].name] = prompts[i].default

C8_Witness ==
  /\ ppc = "done" /\ ~cargs.yes
  /\ \E i, j \in PromptIndices :
       /\ hidden[i] /\ result[prompts[i].name] = NoKey
       /\ asks[j] > 0

\* The value the command line seeds for a name (NoKey: none).
SeedValue(n) ==
  CASE n = "projectName" /\ Truthy(cargs.projectName) -> cargs.projectName
    [] n = "template" /\ Truthy(cargs.template) -> cargs.template
    [] OTHER -> NoKey

\* C9: a prompt whose name the command line seeds (project-name argument or
\* --template) is never asked, and the returned AnswerSet holds the seed.
C9_SeededNotAsked ==
  \A i \in PromptIndices :
    SeedValue(prompts[i].name) # NoKey =>
      /\ asks[i] = 0
      /\ ppc = "done" => result[prompts[i].name] = SeedValue(prompts[i].name)

C9_Witness ==
  /\ ppc = "done" /\ ~cargs.yes
  /\ \E i, j \in PromptIndices :
       /\ SeedValue(prompts[i].name) # NoKey /\ prompts[i].when = "none"
       /\ asks[i] = 0 /\ asks[j] > 0

\* C10 (as claimed): a key that has been set, whatever the value, is never
\* written again.
C10_NeverOverwritten ==
  [][\A n \in AnswerNames : answers[n] # NoKey => answers'[n] = answers[n]]_vars

\* C10 (amended): a key that holds a value other than undefined is never
\* written again: a later prompt of that name is skipped without asking and
\* the first such value is the one returned.  (A key that holds undefined
\* counts as unanswered.)
C10_DefinedNeverOverwritten ==
  /\ [][\A n \in AnswerNames : IsDefined(answers[n]) => answers'[n] = answers[n]]_vars
  /\ [](\A i \in PromptIndices :
          (~cargs.yes /\ IsDefined(answers[prompts[i].name])
             /\ writer[prompts[i].name] < i) => asks[i] = 0)
  /\ [](ppc = "done" =>
          \A n \in AnswerNames : IsDefined(answers[n]) => result[n] = answers[n])

C10_Witness ==
  /\ ppc = "done" /\ ~cargs.yes
  /\ \E i, j \in PromptIndices :
       /\ i < j /\ prompts[i].name = prompts[j].name
       /\ writer[prompts[i].name] = i /\ asks[i] > 0
       /\ ~hidden[j] /\ asks[j] = 0

\* Prompt i has stored the value it resolved from lastLine and no line has
\* been read since.
JustStored(i) ==
  /\ pidx = i + 1 /\ asks[i] > 0 /\ writer[prompts[i].name] = i
  /\ pidx <= Len(prompts) => asks[pidx] = 0

\* Prompt i is asking: every line it has read so far was rejected.
Asking(i) == ppc = "loop" /\ pidx = i /\ asks[i] > 0

\* Prompt i has resolved: the loop has moved past it after asking.
Resolved(i) == pidx > i /\ asks[i] > 0

\* The rule "at least two characters" holds of a value.
AtLeastTwo(v) == Len(v.str) >= 2

\* C11: for an input prompt with a validation rule, every rejected line
\* shows one error and asks again (as often as it takes: the number of
\* errors shown is the number of lines read so far), the first accepted
\* line ends the loop, the value the rule accepted (the line, or the default
\* taken for an empty line) is the one stored, after the prompt's transform,
\* and collectAnswers does not fail at such a prompt.
C11_RetryUntilValid ==
  \A i \in PromptIndices :
    (prompts[i].type = "input" /\ prompts[i].validate = "minLen2") =>
      /\ ~(ppc = "failed" /\ pidx = i)
      /\ Asking(i) =>
           /\ rejections[i] = asks[i]
           /\ ~AtLeastTwo(IF lastLine = <<>> /\ Truthy(prompts[i].default)
                          THEN prompts[i].default ELSE Str(lastLine))
           /\ writer[prompts[i].name] # i
      /\ Resolved(i) => asks[i] = rejections[i] + 1
      /\ JustStored(i) =>
           LET value == IF lastLine = <<>> /\ Truthy(prompts[i].default)
                        THEN prompts[i].default ELSE Str(lastLine)
           IN /\ AtLeastTwo(value)
              /\ answers[prompts[i].name] = Transform(prompts[i], value)

\* A line selects one of k choices: parseInt reads an integer n, 1 <= n <= k.
InRange(line, k) ==
  LET n == ParseInt(line) IN n # NaN /\ 1 <= n.int /\ n.int <= k

\* C12: for a select prompt with k choices a line is accepted if and only if
\* it parses as an integer n with 1 <= n <= k; every other line shows one
\* error and asks again; the prompt resolves to the value (not the label) of
\* the n-th choice of the first accepted line, and collectAnswers does not
\* fail at such a prompt.
C12_SelectByNumber ==
  \A i \in PromptIndices :
    (prompts[i].type = "select" /\ prompts[i].choices # NoChoices) =>
      LET choices == prompts[i].choices.list IN
      /\ ~(ppc = "failed" /\ pidx = i)
      /\ Asking(i) =>
           /\ ~InRange(lastLine, Len(choices))
           /\ rejections[i] = asks[i]
           /\ writer[prompts[i].name] # i
      /\ Resolved(i) => asks[i] = rejections[i] + 1
      /\ JustStored(i) =>
           /\ InRange(lastLine, Len(choices))
           /\ answers[prompts[i].name] =
                Transform(prompts[i], choices[ParseInt(lastLine).int].value)
           /\ answers[prompts[i].name] #
                Transform(prompts[i], Str(<<choices[ParseInt(lastLine).int].name>>))

\* The affirmative tokens: y, yes, true, 1.
Affirmative == { <<"y">>, <<"y", "e", "s">>, <<"t", "r", "u", "e">>, <<"1">> }

\* C13: a confirm prompt resolves to true if and only if the line, after
\* trimming surrounding whitespace and lowercasing, is one of the affirmative
\* tokens; every other line resolves to false.
C13_TrimmedAffirmative ==
  \A i \in PromptIndices :
    (prompts[i].type = "confirm" /\ JustStored(i)) =>
      answers[prompts[i].name] =
        Transform(prompts[i], Bool(ToLowerCase(Trim(lastLine)) \in Affirmative))

\* C14: the result of a confirm prompt is a function of the line alone,
\* whatever the configured default (true, false or none): true exactly for
\* the lines that lowercase to an affirmative token, false for the empty
\* line; one line is read and none is rejected.
C14_DefaultInert ==
  \A i \in PromptIndices :
    prompts[i].type = "confirm" =>
      /\ asks[i] <= 1 /\ rejections[i] = 0
      /\ ~Asking(i)
      /\ JustStored(i) =>
           /\ answers[prompts[i].name] =
                Transform(prompts[i], Bool(ToLowerCase(lastLine) \in Affirmative))
           /\ lastLine = <<>> =>
                answers[prompts[i].name] = Transform(prompts[i], Bool(FALSE))

C14_Witness ==
  \E i \in PromptIndices :
    /\ prompts[i].type = "confirm" /\ prompts[i].default = Bool(TRUE)
    /\ JustStored(i) /\ lastLine = <<>>
    /\ answers[prompts[i].name] = Bool(FALSE)

\* The 1-based indices a line selects among two choices, read off the line:
\* the comma-separated tokens that are 1 or 2, in the order typed, repeats
\* kept; tokens that are no index ("5", "0", "3", "Y", "y ", "") dropped.
TypedIndices(line) ==
  CASE line = <<"2">> -> <<2>>
    [] line = <<"2", ",", "5", ",", "2", ",", "1">> -> <<2, 2, 1>>
    [] OTHER -> <<>>

\* C15: a multiselect prompt reads exactly one line, splits it on commas,
\* drops without any error every token that is not an index of a choice,
\* and resolves to the values of the remaining indices in the order typed,
\* repeated indices kept; no line is rejected.
C15_MultiSelectAsTyped ==
  \A i \in PromptIndices :
    (prompts[i].type = "multiselect" /\ prompts[i].choices = TwoChoices) =>
      /\ asks[i] <= 1 /\ rejections[i] = 0
      /\ ~Asking(i)
      /\ ~(ppc = "failed" /\ pidx = i)
      /\ JustStored(i) =>
           LET choices == prompts[i].choices.list
               typed == TypedIndices(lastLine)
           IN answers[prompts[i].name] =
                Transform(prompts[i],
                          List([k \in 1..Len(typed) |-> choices[typed[k]].value]))

\* The prompts of a name that define a default.
WithDefault(n) ==
  { i \in PromptIndices : prompts[i].name = n /\ prompts[i].default # Undefined }

\* The first prompt of a name that defines a default.
FirstWithDefault(n) ==
  CHOOSE i \in WithDefault(n) : \A j \in WithDefault(n) : i <= j

\* C16: with --yes the Line Reader is never invoked (neither for a prompt nor
\* for the mode question), and the returned AnswerSet holds, for every name,
\* the seed when the command line seeds it; otherwise the default of the
\* first prompt of that name that defines one; otherwise nothing.
C16_YesFillsDefaults ==
  cargs.yes =>
    /\ modeAsks = 0 /\ lastLine = <<>>
    /\ \A i \in PromptIndices : asks[i] = 0 /\ rejections[i] = 0
    /\ ppc # "failed"
    /\ ppc = "done" =>
         \A n \in AnswerNames :
           result[n] =
             IF SeedValue(n) # NoKey THEN SeedValue(n)
             ELSE IF WithDefault(n) # {} THEN prompts[FirstWithDefault(n)].default
             ELSE NoKey

C16_Witness ==
  /\ cargs.yes /\ ppc = "done" /\ allowModeSelection
  /\ \E i, j \in PromptIndices :
       /\ prompts[i].name = "projectName" /\ prompts[i].default # Undefined
       /\ result["projectName"] = Str(<<"a", "p", "p">>)
       /\ prompts[j].name = "x" /\ result["x"] = prompts[j].default
  /\ result["template"] = NoKey

\* Prompt i is a select or multiselect prompt that declares no choices.
MissingChoices(i) ==
  prompts[i].type \in {"select", "multiselect"} /\ prompts[i].choices = NoChoices

\* Prompt i was visible at its turn and its name unanswered.
ReachedAtTurn(i) ==
  ~hidden[i] /\ ~(IsDefined(answers[prompts[i].name]) /\ writer[prompts[i].name] < i)

\* C17 (as claimed): answer collection fails only at a reached select or
\* multiselect prompt that declares no choices, before any question for it;
\* no other prompt definition and no input makes it fail.
C17_OnlyMissingChoicesFails ==
  ppc = "failed" =>
    /\ MissingChoices(pidx) /\ ReachedAtTurn(pidx)
    /\ asks[pidx] = 0

\* The exception of a display call of the UI manager (hex throws it).
DisplayThrew == "error" \in DOMAIN perror

\* C17 (amended): answer collection fails only (a) at a reached select or
\* multiselect prompt that declares no choices, (b) at a reached prompt whose
\* type is none of the four prompt types, (c) when a function of a reached
\* prompt's definition (here: the validation rule) throws, or (d) when a
\* display call of the UI manager throws: the mode question before any
\* prompt, the message of a select or multiselect prompt before its first
\* question, the error for a line the rule or the menu rejected.  In cases
\* (a) and (b) the failure comes before any question for that prompt; every
\* such prompt that is reached fails, none is retried or passed over; a
\* failure aborts the collection: nothing is returned and no later prompt is
\* asked.
C17_FailureCauses ==
  /\ ppc = "failed" =>
       /\ \/ /\ ReachedAtTurn(pidx)
             /\ \/ /\ MissingChoices(pidx) /\ asks[pidx] = 0
                   /\ perror \in {[message |-> "Select prompt requires choices"],
                                  [message |-> "MultiSelect prompt requires choices"]}
                \/ /\ prompts[pidx].type \notin PromptTypes /\ asks[pidx] = 0
                   /\ perror = [message |-> "Unsupported prompt type"]
                \/ /\ prompts[pidx].type = "input" /\ prompts[pidx].validate = "throws"
                   /\ asks[pidx] = 1
                   /\ perror = [thrownBy |-> "validate"]
                \/ /\ prompts[pidx].type \in {"select", "multiselect"}
                   /\ prompts[pidx].choices # NoChoices /\ asks[pidx] = 0
                   /\ DisplayThrew
                \/ /\ prompts[pidx].type = "input" /\ asks[pidx] > 0
                   /\ ~InputAccepted(prompts[pidx], checked)
                   /\ DisplayThrew
                \/ /\ prompts[pidx].type = "select" /\ prompts[pidx].choices # NoChoices
                   /\ asks[pidx] > 0
                   /\ ~InRange(lastLine, Len(prompts[pidx].choices.list))
                   /\ DisplayThrew
          \/ /\ allowModeSelection /\ modeAsks = 0 /\ pidx = 1
             /\ \A j \in PromptIndices : asks[j] = 0 /\ ~hidden[j]
             /\ DisplayThrew
       /\ writer[prompts[pidx].name] # pidx
       /\ result = [n \in AnswerNames |-> NoKey]
       /\ \A j \in PromptIndices : j > pidx => asks[j] = 0 /\ writer[prompts[j].name] # j
  /\ \A i \in PromptIndices :
       MissingChoices(i) =>
         /\ asks[i] = 0 /\ rejections[i] = 0
         /\ (~cargs.yes /\ pidx > i) => ~ReachedAtTurn(i)

\* Collection failed at a second prompt without choices after the first
\* prompt had been asked and had stored its answer.
C17_Witness ==
  /\ ppc = "failed" /\ pidx = 2
  /\ MissingChoices(2) /\ asks[2] = 0
  /\ perror = [message |-> "Select prompt requires choices"]
  /\ asks[1] > 0 /\ writer[prompts[1].name] = 1

(***************************************************************************)
(* Properties of install and uninstall.                                    *)
(***************************************************************************)
\* The last call was install(config) / uninstall(name).
Installing == regCall.op = "install"
Uninstalling == regCall.op = "uninstall"

\* The last call was rejected with a plugin error.
RejectedWithPluginError == regError # NoError /\ regError.code = "PLUGIN_ERROR"

\* C18: install(def) with a name that is already registered is rejected with
\* a plugin error and leaves the registry as it was: the definition stored
\* under the name is the one stored before, and nothing is announced.
C18_DuplicateRejected ==
  (Installing /\ Has(regBefore, regCall.config.name)) =>
    /\ RejectedWithPluginError
    /\ plugins = regBefore
    /\ Get(plugins, regCall.config.name) = Get(regBefore, regCall.config.name)
    /\ regNotice = NoNotice

C18_Witness ==
  /\ Installing /\ Has(regBefore, regCall.config.name)
  /\ regCall.config.version = Str(<<"1", ".", "0", ".", "0">>)
  /\ Get(plugins, regCall.config.name).version # regCall.config.version
  /\ RejectedWithPluginError

\* The versions of Versions that the semantic-version grammar derives:
\* MAJOR.MINOR.PATCH, numbers without leading zeros, with optional
\* -prerelease and +buildmetadata.
StrictSemver ==
  { Str(<<"1", ".", "0", ".", "0">>),
    Str(<<"1", ".", "0", ".", "0", "-", "b", "e", "t", "a", ".", "1">>),
    Str(<<"1", ".", "0", ".", "0", "+", "b", "u", "i", "l", "d", ".", "5">>) }

\* C19: install(def) succeeds (def is stored under def.name and a notice is
\* written) if and only if def.name is not registered, name and version are
\* non-empty strings and version is a strict semantic version; a rejected
\* install stores nothing.
C19_InstallIffStrictSemver ==
  Installing =>
    LET def == regCall.config
        ok == /\ ~Has(regBefore, def.name)
              /\ IsString(def.name) /\ def.name # Str(<<>>)
              /\ def.version \in StrictSemver
    IN IF ok
       THEN /\ regError = NoError
            /\ Get(plugins, def.name) = def
            /\ regNotice = [installed |-> def.name, version |-> def.version]
       ELSE /\ RejectedWithPluginError
            /\ plugins = regBefore

\* C20: uninstall(name) of a name that is not registered is rejected with a
\* plugin error and leaves the registry as it was; otherwise it removes that
\* plugin and no other (getPlugin(name) is undefined, every other name maps
\* to what it mapped to before), and a later install of the same name with
\* a valid definition succeeds.
C20_UninstallRemovesOne ==
  /\ Uninstalling =>
       IF Has(regBefore, regCall.name)
       THEN /\ regError = NoError
            /\ Get(plugins, regCall.name) = Undefined
            /\ \A m \in UninstallNames :
                 m # regCall.name => Get(plugins, m) = Get(regBefore, m)
            /\ Len(plugins) = Len(regBefore) - 1
            /\ regCall.name \in uninstalled
       ELSE /\ RejectedWithPluginError
            /\ plugins = regBefore
  /\ ( /\ Installing /\ regCall.config.name \in uninstalled
       /\ ~Has(regBefore, regCall.config.name)
       /\ regCall.config.version = Str(<<"1", ".", "0", ".", "0">>) ) =>
       /\ regError = NoError
       /\ Get(plugins, regCall.config.name) = regCall.config

C20_Witness ==
  /\ Installing /\ regCall.config.name \in uninstalled
  /\ ~Has(regBefore, regCall.config.name) /\ Len(regBefore) = 1
  /\ Get(plugins, regCall.config.name) = regCall.config
  /\ Len(plugins) = 2


(***************************************************************************)
(* Properties of the CLI driver.                                           *)
(***************************************************************************)
\* Some plugin of the CLI configuration declares a handler for the event.
Declares(event) ==
  \E i \in 1..Len(cli.plugins) :
    IF event = "beforeGenerate" THEN cli.plugins[i].beforeGenerate
    ELSE cli.plugins[i].afterGenerate

\* run has called executeHook with the event.
Executed(event) == \E k \in 1..Len(hookEvents) : hookEvents[k] = event

RunStepFailed ==
  \/ ranswers = NoAnswers
  \/ /\ ranswers # NoAnswers /\ rpc # "validate"
     /\ \/ ~ValidateAnswers(ranswers).valid
        \/ rpc # "validated" /\ FindTemplate(cli.templates, ranswers.template) = 0
        \/ rpc # "generate" /\ gpc = "rejected"

\* The run has ended: process.exit was called, the promise of run rejected,
\* or run returned.
RunEnded == rpc \in {"exited", "rejected", "done"}

\* The console holds a line that the show method has printed.
Printed(method) ==
  \E k \in 1..Len(console) :
    LET prefix == Prefixed(method, <<>>) IN
    /\ Len(console[k].txt) >= Len(prefix)
    /\ SubSeq(console[k].txt, 1, Len(prefix)) = prefix

Generable ==
  /\ ranswers # NoAnswers
  /\ ranswers.projectName \notin {Undef, ""}
  /\ ranswers.template \notin {Undef, ""}
  /\ \E i \in 1..Len(cli.templates) : cli.templates[i].name = ranswers.template

\* C23: generate is invoked only with answers that hold a non-empty
\* projectName and a non-empty template naming a template of the CLI
\* configuration; in every other run no directory or file is created.
C23_GenerateOnlyWhenGenerable ==
  /\ gpc # "idle" =>
       /\ Generable
       /\ gconfig.projectName = ranswers.projectName
       /\ gconfig.template = ranswers.template
  /\ ~Generable =>
       /\ gpc = "idle" /\ glog = <<>>
       /\ ~dirExists
       /\ \A p \in FilePaths : disk[p] = Absent

\* A run with valid answers whose template is not one of the configured
\* templates has ended, and nothing was created.
C23_Witness ==
  /\ rpc = "rejected" /\ ranswers # NoAnswers
  /\ ranswers.projectName = ProjectName /\ ranswers.template = "other"
  /\ Len(cli.templates) > 0
  /\ gpc = "idle" /\ ~dirExists


(***************************************************************************)
(* Properties of generateFiles, generatePackageJson and the install step.  *)
(***************************************************************************)
\* generateFiles has written FileSpec i.
Written(i) == \E k \in 1..Len(glog) : glog[k] = <<"write", i>>

\* The last of the first n FileSpecs that is included and has path p
\* (0 when there is none).
LastWriter(p, n) ==
  LET W == { i \in 1..n : template.files[i].path = p
                          /\ template.files[i].condition # "false" }
  IN IF W = {} THEN 0 ELSE CHOOSE i \in W : \A j \in W : j <= i

\* C24: a FileSpec whose condition is false of the answers is never written
\* and its content is never taken; a path that only such FileSpecs name is
\* left as generate found it.  A FileSpec without condition has been
\* written when generate resolves, whatever its content, the empty string
\* included: its content is on disk unless a later write went to its path.
C24_ConditionDecidesWrite ==
  \A i \in 1..Len(template.files) :
    LET file == template.files[i] IN
    /\ file.condition = "false" =>
         /\ ~Written(i) /\ i \notin produced
         /\ (LastWriter(file.path, Len(template.files)) = 0
             /\ file.path # "package.json") => disk[file.path] = disk0[file.path]
    /\ (file.condition = "none" /\ gpc = "resolved") =>
         /\ Written(i) /\ i \in produced
         /\ disk[file.path] # Absent
         /\ (LastWriter(file.path, Len(template.files)) = i
             /\ file.path # "package.json") => disk[file.path] = Text(file.content)

\* generate has resolved for a template whose first FileSpec is excluded
\* and whose second FileSpec has no condition and the empty content.
C24_Witness ==
  /\ gpc = "resolved" /\ Len(template.files) = 2
  /\ template.files[1].condition = "false" /\ template.files[1].path = "a.txt"
  /\ template.files[2].condition = "none" /\ template.files[2].content = ""
  /\ template.files[2].path = "b.txt"
  /\ disk["b.txt"] = Text("") /\ disk["a.txt"] = Absent

\* C25 (as claimed): when two included FileSpecs have the same path, the
\* content at that path after generate is that of the later one.
C25_LastWriteWins ==
  gpc = "resolved" =>
    \A i, j \in 1..Len(template.files) :
      (/\ i < j
       /\ template.files[i].path = template.files[j].path
       /\ template.files[i].condition # "false"
       /\ template.files[j].condition # "false"
       /\ LastWriter(template.files[j].path, Len(template.files)) = j)
      => disk[template.files[j].path] = Text(template.files[j].content)

\* C25 (amended): the FileSpecs are written one at a time in declaration
\* order; at every point of generateFiles a path holds the content of the
\* last included FileSpec written to it so far, whatever was there before
\* (an earlier FileSpec's content or a file of an earlier generate), and is
\* as generate found it when there is none.  This lasts to the end of
\* generate for every path but package.json, which the manifest takes over.
C25_LastWriteWinsButManifest ==
  /\ \A i, j \in 1..Len(glog) :
       (i < j /\ glog[i][1] = "write" /\ glog[j][1] = "write") => glog[i][2] < glog[j][2]
  /\ \A i \in 1..Len(template.files) : Written(i) => i < fidx
  /\ gpc # "idle" =>
       \A p \in FilePaths :
         LET w == LastWriter(p, fidx - 1) IN
         IF p = "package.json" /\ Logged("manifest")
         THEN disk[p] = Json(PackageJson)
         ELSE disk[p] = IF w = 0 THEN disk0[p] ELSE Text(template.files[w].content)

\* generate has resolved; two included FileSpecs name a.txt, which an
\* earlier generate had left with another content.
C25_Witness ==
  /\ gpc = "resolved" /\ Len(template.files) = 2
  /\ template.files[1].path = "a.txt" /\ template.files[2].path = "a.txt"
  /\ template.files[1].condition # "false" /\ template.files[2].condition # "false"
  /\ template.files[1].content = "x" /\ template.files[2].content = ""
  /\ disk0["a.txt"] = Text("old")
  /\ disk["a.txt"] = Text("")


\* The map a template declares under one of the given names of its
\* dependencies object ("{}" when it declares none).
DeclaredMap(names) ==
  LET d == template.dependencies IN
  IF d = NoDeps \/ names \cap DOMAIN d = {} THEN "{}"
  ELSE d[CHOOSE k \in names \cap DOMAIN d : TRUE]

\* C26: the manifest generate writes has the fields name, version, private,
\* scripts, dependencies, devDependencies, peerDependencies in that order:
\* the project name, '0.1.0', true, the template's scripts and the runtime,
\* development and peer dependency maps the template declares, an empty map
\* standing for whatever the template does not declare.
C26_ManifestFields ==
  Logged("manifest") =>
    disk["package.json"] =
      Json(<< <<"name", gconfig.projectName>>,
              <<"version", "0.1.0">>,
              <<"private", "true">>,
              <<"scripts", IF template.scripts = Undef THEN "{}" ELSE template.scripts>>,
              <<"dependencies", DeclaredMap({"dependencies", "production"})>>,
              <<"devDependencies",
                DeclaredMap({"devDependencies", "devDepencies", "development"})>>,
              <<"peerDependencies", DeclaredMap({"peerDependencies"})>> >>)

\* The template declares at least one dependency map.
DeclaresAMap == template.dependencies # NoDeps /\ DOMAIN template.dependencies # {}

\* The install step of generate has been decided.
InstallDecided == gpc \in {"installing", "post", "posting", "resolved"}

Warned(i) == \E k \in 1..Len(warns) : warns[k] = HookWarning(i)

OnErrorFailed(i) ==
  \/ plugins[i].onError = "throw" /\ onErrCalls[i] > 0
  \/ eres[i] = "rejected"

\* C29: every failure of an onError handler, a synchronous throw or a
\* rejected promise, after a synchronous or an asynchronous failure of the
\* handler, has been logged as 'onError hook also failed' when executeHook
\* returns, and executeHook does not reject.
C29_OnErrorFailureLogged ==
  /\ hpc # "rejected"
  /\ hpc = "done" =>
       \A i \in 1..Len(plugins) :
         OnErrorFailed(i) =>
           \E k \in 1..Len(errs) : errs[k].plugin = plugins[i].name

\* C30: while the loop of executeHook runs, no promise of a handler has
\* been waited for (none has settled), and the loop ends only when the
\* handler of every plugin that defines one has been invoked, once,
\* whatever the promises of the earlier handlers do.
C30_InvokedBeforeAnyWait ==
  /\ hpc = "loop" =>
       /\ \A i \in 1..Len(plugins) :
            /\ hres[i] \in {"none", "pending"}
            /\ pchain[i] \in {"none", "pending"}
            /\ eres[i] \in {"none", "pending"}
       /\ \A i \in 1..(hidx - 1) : plugins[i].hook # "none" => invoked[i] = 1
  /\ hpc \in {"join", "done"} =>
       \A i \in 1..Len(plugins) : plugins[i].hook # "none" => invoked[i] = 1
  /\ \A i \in 1..Len(plugins) : invoked[i] <= 1

\* The loop is over, the promise of the first handler is still pending and
\* the handler of the second plugin has been invoked.
C30_Witness ==
  /\ hpc = "join" /\ Len(plugins) = 2
  /\ hres[1] = "pending" /\ plugins[2].hook # "none" /\ invoked[2] = 1

C32_DefaultSubstituted ==
  \A i \in PromptIndices :
    prompts[i].type = "input" =>
      LET expected == IF lastLine = <<>> /\ prompts[i].default # Undefined
                      THEN prompts[i].default ELSE Str(lastLine)
      IN /\ (Asking(i) /\ prompts[i].validate # "none") => checked = expected
         /\ JustStored(i) =>
              /\ raw[i] = expected
              /\ prompts[i].validate # "none" => checked = expected

\* C33: a prompt that was resolved by asking the user called its transform
\* once, on the raw value its handler returned, and only once that value was
\* resolved (for an input prompt with a rule: the value the rule was given
\* last and accepted); the answer it stored is the transform's result, and
\* the raw value itself when the prompt has no transform.
C33_TransformOnceAfterValidation ==
  \A i \in PromptIndices :
    /\ raw[i] = NoKey => transforms[i] = 0
    /\ raw[i] # NoKey =>
         /\ asks[i] > 0
         /\ transforms[i] = (IF prompts[i].transform = "none" THEN 0 ELSE 1)
         /\ writer[prompts[i].name] = i =>
              answers[prompts[i].name] =
                CASE prompts[i].transform = "wrap" -> Wrapped(raw[i])
                  [] prompts[i].transform = "drop" -> Undefined
                  [] OTHER -> raw[i]
    /\ (JustStored(i) /\ prompts[i].type = "input"
          /\ prompts[i].validate # "none") =>
         checked = raw[i] /\ AtLeastTwo(raw[i])

\* An input prompt with a rule and a transform stored the transformed value
\* of the line the rule accepted.
C33_Witness ==
  \E i \in PromptIndices :
    /\ prompts[i].type = "input" /\ prompts[i].validate = "minLen2"
    /\ prompts[i].transform = "wrap"
    /\ JustStored(i) /\ checked = raw[i] /\ transforms[i] = 1
    /\ raw[i] = Str(lastLine) /\ answers[prompts[i].name] = Wrapped(raw[i])

\* C34: with the default theme and with every theme of `themes`, a call of
\* showSuccess, showError, showWarning or showInfo throws nothing and adds
\* one line to the console: the prefix of the method followed by the message.
C34_ShowPrintsPrefixedLine ==
  (theme \in BuiltinThemes /\ lastShow # NoShow) =>
    /\ uiError = NoError
    /\ Len(console) = shows
    /\ console[Len(console)].txt = Prefixed(lastShow.method, lastShow.message)

\* The last call was a lookup or a hook execution.
ReadOnlyCall == regCall.op \in {"getPlugin", "listPlugins", "executeHook"}

\* C35: after any sequence of install, uninstall, getPlugin, listPlugins and
\* executeHook calls no two entries of the registry have the same name, every
\* entry holds a definition of the name it is stored under whose version
\* passed the check of validatePluginConfig, listPlugins has returned the
\* stored definitions, each once, getPlugin the definition stored under the
\* name or undefined, and none of the three has changed the registry.
C35_RegistryInvariants ==
  /\ \A i, j \in 1..Len(plugins) : plugins[i].key = plugins[j].key => i = j
  /\ \A i \in 1..Len(plugins) :
       /\ plugins[i].value.name = plugins[i].key
       /\ IsString(plugins[i].value.version)
       /\ SemverTest(plugins[i].value.version.str)
  /\ regCall.op = "listPlugins" =>
       /\ Len(regResult.list) = Len(plugins)
       /\ \A i \in 1..Len(plugins) :
            \E k \in 1..Len(regResult.list) :
              /\ regResult.list[k] = plugins[i].value
              /\ \A m \in 1..Len(regResult.list) :
                   regResult.list[m] = plugins[i].value => m = k
  /\ regCall.op = "getPlugin" =>
       regResult.plugin =
         (IF \E i \in 1..Len(plugins) : plugins[i].key = regCall.name
          THEN plugins[CHOOSE i \in 1..Len(plugins) : plugins[i].key = regCall.name].value
          ELSE Undefined)
  /\ ReadOnlyCall => plugins = regBefore

\* listPlugins has returned two definitions, in a registry a definition
\* has been uninstalled from.
C35_Witness ==
  /\ regCall.op = "listPlugins" /\ Len(regResult.list) = 2
  /\ uninstalled # {}
  /\ regResult.list[1].name # regResult.list[2].name

\* The interfaces that are open.
OpenInterfaces == { k \in 1..Len(interfaces) : interfaces[k].open }

\* C36: after any sequence of setMode, question and cleanup calls at most
\* one readline interface is open and an open one is of the kind of the
\* current mode; after setMode and after cleanup none is open; a question
\* asked right after one of them has created a new interface of the current
\* mode, and that interface is the open one.
C36_OneInterfaceOfTheMode ==
  /\ Cardinality(OpenInterfaces) <= 1
  /\ \A k \in OpenInterfaces : interfaces[k].kind = mode
  /\ rlCall.op \in {"setMode", "cleanup"} => OpenInterfaces = {}
  /\ (rlCall.op = "question" /\ rlCall.before \in {"setMode", "cleanup"}) =>
       /\ OpenInterfaces = {Len(interfaces)}
       /\ interfaces[Len(interfaces)].kind = mode
       /\ pending \in {0, Len(interfaces)}
       /\ (IF mode = "async" THEN asyncInterface ELSE syncInterface) = Len(interfaces)

\* A question in sync mode, asked after setMode closed the async interface
\* of an earlier question, has opened the second interface.
C36_Witness ==
  /\ rlCall = [op |-> "question", before |-> "setMode"] /\ mode = "sync"
  /\ Len(interfaces) = 2
  /\ interfaces[1] = [kind |-> "async", open |-> FALSE]
  /\ interfaces[2] = [kind |-> "sync", open |-> TRUE]

\* C37: when generate has resolved, package.json holds the composed
\* manifest, also when an included FileSpec of the template has the path
\* package.json: every template file was written before the manifest, which
\* replaced what was there.
C37_ManifestReplacesTemplateFile ==
  /\ \A i, j \in 1..Len(glog) :
       (glog[i] = <<"manifest">> /\ glog[j][1] = "write") => j < i
  /\ (Logged("manifest") /\ gpc # "idle") => disk["package.json"] = Json(PackageJson)
  /\ gpc = "resolved" => Logged("manifest")

\* generate has resolved for a template with an included FileSpec at
\* package.json, which was written, and the file holds the manifest.
C37_Witness ==
  /\ gpc = "resolved"
  /\ \E i \in 1..Len(template.files) :
       /\ template.files[i].path = "package.json"
       /\ template.files[i].condition # "false" /\ Written(i)
       /\ Text(template.files[i].content) # Json(PackageJson)
  /\ disk["package.json"] = Json(PackageJson)

C38_SelectCanResolve ==
  \A i \in PromptIndices :
    (prompts[i].type = "select" /\ pidx = i) =>
      /\ Reached("select") =>
           \/ prompts[i].choices = NoChoices
           \/ \E line \in Lines \cup {<<"1">>} :
                InRange(line, Len(prompts[i].choices.list))
      /\ ppc = "failed" =>
           /\ MissingChoices(i) /\ asks[i] = 0
           /\ perror = [message |-> "Select prompt requires choices"]


====
